---- MODULE Spec2Model ----
(***************************************************************************)
(* Model of package actions of keep94/gohue (src/actions/actions.go): the  *)
(* compilation of an Action tree into a task (AsTask/asTask), the          *)
(* dispatcher (multiSet), the error classification (fixError) and the run  *)
(* of the compiled task on one tasks.Execution; and of the Color of        *)
(* package gohue (src/hue.go): NewColor, X, Y and Blend.                   *)
(*                                                                         *)
(* A run is a set of logical threads (the caller's goroutine plus one per  *)
(* child of a running Parallel task), each with a stack of frames, one     *)
(* frame per task.Do call in progress.  Every Setter.Set call and every    *)
(* Execution.Sleep call is one step.                                       *)
(***************************************************************************)
EXTENDS Integers, Sequences, FiniteSets, TLC

VARIABLES
  action,      \* the Action tree handed to AsTask (the receiver a)
  rootLights,  \* the lights argument of AsTask
  threads,     \* thread id -> stack of frames (top is the last element)
  err,         \* Execution.err, read by e.Error(), written by e.SetError()
  ended,       \* Execution.IsEnded(): e.End() has been called
  now,         \* the clock of the Execution (e.Now()), in time units
  log,         \* history: every Setter.Set call and every e.Sleep call, in order
  rounds,      \* history: every call of multiSet (one dispatch round each)
  call         \* a call of a function of Color: its arguments and its result

vars == <<action, rootLights, threads, err, ended, now, log, rounds, call>>

-----------------------------------------------------------------------------
(* Bounds of the model *)

\* light ids range over 0..MaxLightId (0 is the broadcast id)
MaxLightId == 2
\* the lights argument of AsTask has at most this many ids
MaxLights == 3
\* a Series or Parallel node has at most this many children
MaxChildren == 2
\* the Repeat count given to repeated nodes
RepeatN == 2
\* the duration of the Sleep nodes
SleepD == 3
\* a suspension may overshoot its duration by up to this much
MaxDrift == 1
\* at most this many Setter.Set calls of one run return an error
MaxFailures == 1
\* the ratios given to Color.Blend are the multiples of 1 / RatioDen in [0, 1]
RatioDen == 10
\* a float64 coordinate is a multiple of 1 / (maxu16 * Fine)
Fine == 10

-----------------------------------------------------------------------------
(* Values: maybe.Uint8, maybe.Uint16, maybe.Bool, gohue.MaybeColor,         *)
(* gohue.LightProperties                                                    *)

Nothing == [Valid |-> FALSE, Value |-> 0]
Just(v) == [Valid |-> TRUE, Value |-> v]
NothingBool == [Valid |-> FALSE, Value |-> FALSE]
JustBool(b) == [Valid |-> TRUE, Value |-> b]
NothingColor == [Valid |-> FALSE, x |-> 0, y |-> 0]
NewMaybeColor(x, y) == [Valid |-> TRUE, x |-> x, y |-> y]

\* var properties gohue.LightProperties: the zero value
ZeroProperties ==
  [C |-> NothingColor, Bri |-> Nothing, On |-> NothingBool,
   TransitionTime |-> Nothing]

-----------------------------------------------------------------------------
(* Errors *)

\* the error values a Setter may return (gohue.NoSuchResourceError is the
\* bridge's "no such resource"; GeneralError stands for every other error)
NoSuchResourceError == "gohue: No such resource error."
GeneralError == "gohue: General error."
SetterErrors == {NoSuchResourceError, GeneralError}

\* the raw responses a Setter may return with an error ("" is a nil response)
Responses == {"", "hello"}

kInvalidLightIdBytes == "Invalid light id"

\* the nil error
NoError == [type |-> "nil", LightId |-> 0, RawResponse |-> "", s |-> ""]

\* &NoSuchLightIdError{LightId: lightId, RawResponse: rawResponse}
NoSuchLightIdError(lightId, rawResponse) ==
  [type |-> "NoSuchLightIdError", LightId |-> lightId,
   RawResponse |-> rawResponse, s |-> ""]

\* errors.New(s)
ErrorsNew(str) ==
  [type |-> "errorString", LightId |-> 0, RawResponse |-> "", s |-> str]

\* the Error() method of an error value
ErrorString(e) ==
  IF e.type = "NoSuchLightIdError" THEN e.RawResponse ELSE e.s

fixErrorSwapped(lightId, rawResponse, error) ==
  IF error = NoSuchResourceError
    THEN ErrorsNew(rawResponse)
    ELSE NoSuchLightIdError(lightId, rawResponse)

fixErrorNoId(lightId, rawResponse, error) ==
  IF error = NoSuchResourceError
    THEN NoSuchLightIdError(0, rawResponse)
    ELSE ErrorsNew(rawResponse)

fixErrorKeepsErr(lightId, rawResponse, error) ==
  IF error = NoSuchResourceError
    THEN NoSuchLightIdError(lightId, rawResponse)
    ELSE ErrorsNew(error)

fixErrorNilOnEmpty(lightId, rawResponse, error) ==
  IF rawResponse = "" THEN NoError
  ELSE IF error = NoSuchResourceError
    THEN NoSuchLightIdError(lightId, rawResponse)
    ELSE ErrorsNew(rawResponse)

fixError(lightId, rawResponse, error) ==
  IF error = NoSuchResourceError
    THEN NoSuchLightIdError(lightId, rawResponse)
    ELSE ErrorsNew(rawResponse)

-----------------------------------------------------------------------------
(* Action trees *)

\* ColorDuration{C, Bri, D} and Gradient{Cds, Refresh}
ColorDuration(c, bri, d) == [C |-> c, Bri |-> bri, D |-> d]
Gradient(cds, refresh) == [Cds |-> cds, Refresh |-> refresh]

\* the zero Action: no field set.  G is <<>> for a nil *Gradient and <<g>>
\* for a pointer to the Gradient g.
ZeroAction ==
  [Lights |-> <<>>, Repeat |-> 0, G |-> <<>>, C |-> NothingColor,
   Bri |-> Nothing, On |-> FALSE, Off |-> FALSE, TransitionTime |-> Nothing,
   Sleep |-> 0, Series |-> <<>>, Parallel |-> <<>>]


\* a.Lights = lights, a.Repeat = n on a copy of a
WithLights(a, lights) == [a EXCEPT !.Lights = lights]
WithRepeat(a, n) == [a EXCEPT !.Repeat = n]

\* the children asTask compiles for a node: Parallel wins over Series
Children(a) == IF Len(a.Parallel) > 0 THEN a.Parallel ELSE a.Series

-----------------------------------------------------------------------------
(* Tasks: what AsTask returns.  A task is a record; kind tells which Do     *)
(* method runs it.  path is the position of the Action node the task was   *)
(* compiled from (the child indices from the root), kept for the history.  *)

Task(kind, tasks, n, a, lights, path) ==
  [kind |-> kind, tasks |-> tasks, n |-> n, a |-> a, lights |-> lights,
   path |-> path]

\* tasks.ParallelTasks(parallelTasks...)
ParallelTasks(ts, path) == Task("parallel", ts, 0, ZeroAction, <<>>, path)
\* tasks.SeriesTasks(seriesTasks...)
SeriesTasks(ts, path) == Task("series", ts, 0, ZeroAction, <<>>, path)
\* tasks.RepeatingTask(t, n)
RepeatingTask(t, n) == Task("repeat", <<t>>, n, ZeroAction, <<>>, t.path)
\* tasks.TaskFunc(func(e) { a.doOnOff(setter, lights, e) }) and the like:
\* the closure captures a and lights
TaskFunc(kind, a, lights, path) == Task(kind, <<>>, 0, a, lights, path)

\* if len(a.Lights) > 0 { lights = a.Lights }
resolveLightsIgnoreOwn(a, lights) == lights

resolveLightsOwnOnly(a, lights) == a.Lights

resolveLights(a, lights) ==
  IF Len(a.Lights) > 0 THEN a.Lights ELSE lights

\* the order in which asTask fills seriesTasks: seriesTasks[i] = a.Series[i]
seriesIndexReversed(a, i) == Len(a.Series) + 1 - i

seriesIndex(a, i) == i

RECURSIVE AsTask(_, _, _)
RECURSIVE asTask(_, _, _)

\* panic("D of first ColorDuration element must be 0."): no task is returned
PanicTask(path) == Task("panic", <<>>, 0, ZeroAction, <<>>, path)
Panics(task) == task.kind = "panic"

\* a panic in the compilation of a child ends the compilation of the parent
Compiled(ts, task) ==
  IF \E i \in DOMAIN ts : Panics(ts[i]) THEN PanicTask(task.path) ELSE task

\* if len(a.G.Cds) == 0 || a.G.Cds[0].D != 0
gradientMalformedEmptyOnly(g) == Len(g.Cds) = 0

gradientMalformed(g) == Len(g.Cds) = 0 \/ g.Cds[1].D # 0

\* if a.C.Valid || a.Bri.Valid || a.On || a.Off
hasPatchFieldOnOffOnly(a) == a.On \/ a.Off

hasPatchField(a) == a.C.Valid \/ a.Bri.Valid \/ a.On \/ a.Off

\* if a.G != nil, tested after Parallel and Series and before the patch fields
hasGradientUnlessPatch(a) == a.G # <<>> /\ ~hasPatchField(a)

hasGradient(a) == a.G # <<>>

asTask(a, lights0, path) ==
  LET lights == resolveLights(a, lights0) IN
  IF Len(a.Parallel) > 0 THEN
    LET parallelTasks ==
          [i \in 1..Len(a.Parallel) |->
             AsTask(a.Parallel[i], lights, Append(path, i))]
    IN Compiled(parallelTasks, ParallelTasks(parallelTasks, path))
  ELSE IF Len(a.Series) > 0 THEN
    LET seriesTasks ==
          [i \in 1..Len(a.Series) |->
             AsTask(a.Series[seriesIndex(a, i)], lights,
                    Append(path, seriesIndex(a, i)))]
    IN Compiled(seriesTasks, SeriesTasks(seriesTasks, path))
  ELSE IF hasGradient(a) THEN
    IF gradientMalformed(a.G[1])
      THEN PanicTask(path)
      ELSE TaskFunc("doGradient", a, lights, path)
  ELSE IF hasPatchField(a) THEN
    TaskFunc("doOnOff", a, lights, path)
  ELSE
    TaskFunc("sleep", a, lights, path)

\* if a.Repeat < 2 { return a.asTask(setter, lights) }
repeatsOnceAlways(a) == TRUE

repeatsOnce(a) == a.Repeat < 2

AsTask(a, lights, path) ==
  IF repeatsOnce(a) \/ Panics(asTask(a, lights, path))
    THEN asTask(a, lights, path)
    ELSE RepeatingTask(asTask(a, lights, path), a.Repeat)

-----------------------------------------------------------------------------
(* Frames and threads *)

Root == <<>>

\* one task.Do(e) call in progress
\* i: the loop index of a series or repeating task; k: the position of
\* multiSet in lights; props: the properties variable of doOnOff and
\* doGradient; startTime, currentD, idx: the variables of doGradient;
\* round: the last call of multiSet the frame made; logStart, roundStart: the
\* lengths of log and rounds when the call began
NewFrame(task, logStart, roundStart) ==
  [task |-> task, pc |-> "start", i |-> 0, k |-> 0,
   props |-> ZeroProperties, startTime |-> 0, currentD |-> 0, idx |-> 0,
   round |-> 0, logStart |-> logStart, roundStart |-> roundStart]
Frame(task) == NewFrame(task, Len(log), Len(rounds))

Running(th) == th \in DOMAIN threads /\ threads[th] # <<>>
Top(th) == threads[th][Len(threads[th])]

\* the stack of th with its top frame replaced, popped, or with one pushed
SetTop(th, f) == [threads EXCEPT ![th][Len(threads[th])] = f]
Pop(th) == [threads EXCEPT ![th] = SubSeq(threads[th], 1, Len(threads[th]) - 1)]
Call(th, f, task) ==
  [threads EXCEPT ![th] = Append(SetTop(th, f)[th], Frame(task))]

\* RunForTesting(task, clock) has returned
Done == threads[Root] = <<>>


-----------------------------------------------------------------------------
(* History records *)

SetEntry(f, light, out) ==
  [ev |-> "Set", node |-> f.task.path, round |-> f.round, L |-> light,
   props |-> f.props, D |-> now, resp |-> out.resp, err |-> out.err,
   d |-> 0, adv |-> 0, ok |-> out.err = ""]

\* adv: by how much the clock moved during the suspension
SleepEntry(f, d, ok) ==
  [ev |-> "Sleep", node |-> f.task.path, round |-> 0, L |-> 0,
   props |-> ZeroProperties, D |-> now, resp |-> "", err |-> "",
   d |-> d, adv |-> now' - now, ok |-> ok]

\* one call of multiSet by frame f.  prev: the round the same call of
\* doGradient made before this one (0: none); idx: the idx of doGradient at
\* the call; D: the time of the call, which may follow a suspension made in
\* the same step; end: the length of log at the return
RoundEntry(f, props) ==
  [node |-> f.task.path, lights |-> f.task.lights, props |-> props,
   prev |-> f.round, idx |-> f.idx, D |-> now',
   done |-> FALSE, error |-> NoError, end |-> 0]

\* the Setter.Set calls of the run that returned an error
Failures == {j \in 1..Len(log) : log[j].ev = "Set" /\ ~log[j].ok}

\* what one Setter.Set call may return: (response, nil) or (response, err)
Outcomes ==
  {[resp |-> "", err |-> ""]} \cup
  IF Cardinality(Failures) < MaxFailures
    THEN {[resp |-> r, err |-> e] : r \in Responses, e \in SetterErrors}
    ELSE {}

-----------------------------------------------------------------------------
(* tasks.Execution *)

\* e.End(), called by whoever holds the Execution, at any time of the run
End ==
  /\ ~Done
  /\ ~ended
  /\ ended' = TRUE
  /\ UNCHANGED <<call, action, rootLights, threads, err, now, log, rounds>>

\* e.Sleep(d) of the top frame f of th, which continues as frame g(ok):
\* a select between the ended channel and the clock's After(d).  It returns
\* true once d has passed; when the execution has ended it may return false.
ExecutionSleepNoWait(th, d, ok) ==
  /\ ok \in (IF ended THEN {TRUE, FALSE} ELSE {TRUE})
  /\ now' = now
  /\ log' = Append(log, SleepEntry(Top(th), d, ok))

ExecutionSleep(th, d, ok) ==
  /\ ok \in (IF ended THEN {TRUE, FALSE} ELSE {TRUE})
  /\ IF ok
       THEN \E drift \in 0..MaxDrift : now' = now + d + drift
       ELSE \E adv \in {0, d} : now' = now + adv
  /\ log' = Append(log, SleepEntry(Top(th), d, ok))

-----------------------------------------------------------------------------
(* The leaves *)

\* func (a *Action) doOnOff: the properties it builds
doOnOffOffWins(a) ==
  [C |-> a.C, Bri |-> a.Bri,
   On |-> IF a.Off THEN JustBool(FALSE)
          ELSE IF a.On THEN JustBool(TRUE) ELSE NothingBool,
   TransitionTime |-> a.TransitionTime]

doOnOff(a) ==
  [C |-> a.C, Bri |-> a.Bri,
   On |-> IF a.On THEN JustBool(TRUE)
          ELSE IF a.Off THEN JustBool(FALSE) ELSE NothingBool,
   TransitionTime |-> a.TransitionTime]

\* the call multiSet(e, setter, lights, &properties) made by frame f of th:
\* f waits at pc "multiSet" until the round is over
EnterMultiSet(th, f, props) ==
  /\ threads' = SetTop(th, [f EXCEPT !.pc = "multiSet", !.k = 1,
                                     !.props = props,
                                     !.round = Len(rounds) + 1])
  /\ rounds' = Append(rounds, RoundEntry(f, props))

\* the TaskFunc of an immediate node starts: a.doOnOff(setter, lights, e)
DoOnOff(th) ==
  /\ Running(th)
  /\ Top(th).task.kind = "doOnOff"
  /\ Top(th).pc = "start"
  /\ UNCHANGED <<call, action, rootLights, err, ended, now, log>>
  /\ EnterMultiSet(th, Top(th), doOnOff(Top(th).task.a))

\* the TaskFunc of a sleep node: e.Sleep(a.Sleep), result ignored
DoSleep(th) ==
  /\ Running(th)
  /\ Top(th).task.kind = "sleep"
  /\ Top(th).pc = "start"
  /\ \E ok \in BOOLEAN : ExecutionSleep(th, Top(th).task.a.Sleep, ok)
  /\ threads' = Pop(th)
  /\ UNCHANGED <<call, action, rootLights, err, ended, rounds>>

-----------------------------------------------------------------------------
(* The gradient.  A ratio is a pair of integers, numerator n over           *)
(* denominator d; a color coordinate is its uint16 value, 10000 to 1.       *)

\* uint16(x * maxu16 + 0.5) and uint8(x + 0.5) for x = num / den, den > 0
RoundRatioTruncates(num, den) == num \div den

RoundRatio(num, den) == (2 * num + den) \div (2 * den)

\* func (c Color) Blend(other Color, ratio float64) Color, per coordinate:
\* NewColor(c.X() * invratio + other.X() * ratio, ...)
BlendCoordinateSwapped(c, other, n, d) ==
  RoundRatio(n * c + (d - n) * other, d) % 65536

BlendCoordinate(c, other, n, d) ==
  RoundRatio((d - n) * c + n * other, d) % 65536

\* func maybeBlendColor(first, second gohue.MaybeColor, ratio float64)
\* maxu16 = float64(10000.0)
maxu16 == 10000

\* type Color struct { x, y uint16 }; a float64 coordinate v stands for
\* v / (maxu16 * Fine)
\* func NewColor(x, y float64) Color: uint16(x * maxu16 + 0.5)
NewColor(x, y) ==
  [x |-> RoundRatio(x, Fine) % 65536, y |-> RoundRatio(y, Fine) % 65536]

\* func (c Color) X() float64: float64(c.x) / maxu16
XFullScale(c) == (c.x * maxu16 * Fine) \div 65535

X(c) == c.x * Fine

\* func (c Color) Y() float64: float64(c.y) / maxu16
Y(c) == c.y * Fine

\* func (c Color) Blend(other Color, ratio float64) Color, ratio = n / d
Blend(c, other, n, d) ==
  [x |-> BlendCoordinate(c.x, other.x, n, d),
   y |-> BlendCoordinate(c.y, other.y, n, d)]

maybeBlendColorEither(first, second, n, d) ==
  IF first.Valid /\ second.Valid
    THEN NewMaybeColor(BlendCoordinate(first.x, second.x, n, d),
                       BlendCoordinate(first.y, second.y, n, d))
    ELSE IF first.Valid THEN first ELSE second

maybeBlendColor(first, second, n, d) ==
  IF first.Valid /\ second.Valid
    THEN NewMaybeColor(BlendCoordinate(first.x, second.x, n, d),
                       BlendCoordinate(first.y, second.y, n, d))
    ELSE first

\* func maybeBlendBrightness(first, second maybe.Uint8, ratio float64):
\* uint8((1.0 - ratio) * first.Value + ratio * second.Value + 0.5)
maybeBlendBrightnessAddsOne(first, second, n, d) ==
  IF first.Valid /\ second.Valid
    THEN Just((((d - n) * first.Value + n * second.Value + d) \div d) % 256)
    ELSE first

maybeBlendBrightness(first, second, n, d) ==
  IF first.Valid /\ second.Valid
    THEN Just(RoundRatio((d - n) * first.Value + n * second.Value, d) % 256)
    ELSE first

\* a.G.Cds[idx], idx counted from 0 as in the source
Cds(a) == a.G[1].Cds
Cd(a, idx) == Cds(a)[idx + 1]

\* the test at the head of the for loop: currentD >= a.G.Cds[idx].D
satisfiedEarly(currentD, d) == currentD + 1 >= d

satisfied(currentD, d) == currentD >= d

\* the head of the for loop: if currentD >= a.G.Cds[idx].D { idx++; continue }
RECURSIVE skipSatisfied(_, _, _)
skipSatisfied(a, currentD, idx) ==
  IF idx < Len(Cds(a)) /\ satisfied(currentD, Cd(a, idx).D)
    THEN skipSatisfied(a, currentD, idx + 1)
    ELSE idx

\* the properties of the next call of multiSet: interpolated between
\* Cds[idx-1] and Cds[idx] inside the loop, those of the last element after it
gradientPropertiesKeepsLast(a, properties, currentD, idx) ==
  IF idx < Len(Cds(a)) THEN
    LET first == Cd(a, idx - 1)
        second == Cd(a, idx)
        n == currentD - first.D
        d == second.D - first.D
    IN [properties EXCEPT
          !.C = maybeBlendColor(first.C, second.C, n, d),
          !.Bri = maybeBlendBrightness(first.Bri, second.Bri, n, d)]
  ELSE
    properties

gradientProperties(a, properties, currentD, idx) ==
  IF idx < Len(Cds(a)) THEN
    LET first == Cd(a, idx - 1)
        second == Cd(a, idx)
        n == currentD - first.D
        d == second.D - first.D
    IN [properties EXCEPT
          !.C = maybeBlendColor(first.C, second.C, n, d),
          !.Bri = maybeBlendBrightness(first.Bri, second.Bri, n, d)]
  ELSE
    [properties EXCEPT !.C = Cd(a, Len(Cds(a)) - 1).C,
                       !.Bri = Cd(a, Len(Cds(a)) - 1).Bri]

\* from the head of the for loop to the next call of multiSet
GradientRound(th, f, currentD) ==
  LET idx == skipSatisfied(f.task.a, currentD, f.idx) IN
  EnterMultiSet(th, [f EXCEPT !.currentD = currentD, !.idx = idx],
                gradientProperties(f.task.a, f.props, currentD, idx))

\* var properties gohue.LightProperties; if a.On { properties.On.Set(true) }
initialPropertiesSetsOn(a) ==
  [ZeroProperties EXCEPT !.On = JustBool(a.On)]

initialPropertiesWithTransition(a) ==
  [ZeroProperties EXCEPT
     !.On = IF a.On THEN JustBool(TRUE) ELSE NothingBool,
     !.TransitionTime = a.TransitionTime]

initialProperties(a) ==
  [ZeroProperties EXCEPT
     !.On = IF a.On THEN JustBool(TRUE) ELSE NothingBool]

\* the variables of doGradient before its loop: startTime := e.Now(),
\* properties with On set from a.On, idx := 1
doGradientBeginsNoStartTime(f) ==
  [f EXCEPT !.idx = 1, !.props = initialProperties(f.task.a)]

doGradientBegins(f) ==
  [f EXCEPT !.startTime = now, !.idx = 1,
            !.props = initialProperties(f.task.a)]

\* the TaskFunc of a gradient node starts: a.doGradient(setter, lights, e)
DoGradient(th) ==
  /\ Running(th)
  /\ Top(th).task.kind = "doGradient"
  /\ Top(th).pc = "start"
  /\ UNCHANGED <<call, action, rootLights, err, ended, now, log>>
  /\ GradientRound(th, doGradientBegins(Top(th)), 0)

\* after multiSet in the loop: properties.On.Clear();
\* if e.Error() != nil { return }
\* properties.On.Clear()
clearOnKeeps(properties) == properties

clearOn(properties) == [properties EXCEPT !.On = NothingBool]

gradientStopsNever == FALSE

gradientStops == err # NoError

\* the Action tree after properties.On.Clear(): properties is a variable of
\* doGradient, so the On of the node stays as the caller set it
treeAfterClearDropsOn(th) == [action EXCEPT !.On = FALSE]

treeAfterClear(th) == action

GradientCheck(th) ==
  /\ Running(th)
  /\ Top(th).task.kind = "doGradient"
  /\ Top(th).pc = "afterSet"
  /\ LET f == Top(th) IN
     threads' = IF gradientStops
                  THEN Pop(th)
                  ELSE SetTop(th, [f EXCEPT !.pc = "sleep",
                                            !.props = clearOn(f.props)])
  /\ action' = treeAfterClear(th)
  /\ UNCHANGED <<call, rootLights, err, ended, now, log, rounds>>

\* if !e.Sleep(a.G.Refresh) { return }
sleepCancelledNever(ok) == FALSE

sleepCancelled(ok) == ~ok

\* currentD = e.Now().Sub(startTime), after the suspension
currentDSinceSleep(f) == now' - now

currentDAfterSleep(f) == now' - f.startTime

\* if !e.Sleep(a.G.Refresh) { return }; currentD = e.Now().Sub(startTime)
GradientSleep(th) ==
  /\ Running(th)
  /\ Top(th).task.kind = "doGradient"
  /\ Top(th).pc = "sleep"
  /\ \E ok \in BOOLEAN :
       /\ ExecutionSleep(th, Top(th).task.a.G[1].Refresh, ok)
       /\ IF sleepCancelled(ok)
            THEN threads' = Pop(th) /\ rounds' = rounds
            ELSE GradientRound(th, Top(th), currentDAfterSleep(Top(th)))
  /\ UNCHANGED <<call, action, rootLights, err, ended>>

-----------------------------------------------------------------------------
(* multiSet: one iteration of its loop (one Setter.Set call) per step *)

\* the frame after multiSet has returned to it
AfterMultiSet(th, f) ==
  IF f.task.kind = "doOnOff" THEN Pop(th)
  ELSE IF f.idx >= Len(f.task.a.G[1].Cds) THEN Pop(th)
  ELSE SetTop(th, [f EXCEPT !.pc = "afterSet"])

\* multiSet returns: e.SetError(error) first when error is not nil
ReturnFromMultiSetLastWins(th, f, error) ==
  /\ threads' = AfterMultiSet(th, f)
  /\ err' = error
  /\ rounds' = [rounds EXCEPT ![f.round].done = TRUE,
                              ![f.round].error = error,
                              ![f.round].end = Len(log')]

ReturnFromMultiSet(th, f, error) ==
  /\ threads' = AfterMultiSet(th, f)
  /\ err' = IF error = NoError THEN err ELSE error
  /\ rounds' = [rounds EXCEPT ![f.round].done = TRUE,
                              ![f.round].error = error,
                              ![f.round].end = Len(log')]

\* where the for loop over lights stops after a successful Set at position k
lastPositionFirstOnly(lights) == 1

lastPosition(lights) == Len(lights)

\* what the loop does with light id 0 in a non-empty list
zeroIsInvalidNever(light) == FALSE

zeroIsInvalid(light) == light = 0

\* what multiSet does when setter.Set returned err != nil
stopOnErrorNever(out) == FALSE

stopOnError(out) == out.err # ""

\* the light id handed to setter.Set at position k
lightAtReversed(lights, k) == lights[Len(lights) + 1 - k]

lightAt(lights, k) == lights[k]

\* if len(lights) == 0: one call, to light id 0
multiSetAllNoCall(th, f) ==
  /\ log' = log
  /\ ReturnFromMultiSet(th, f, NoError)

multiSetAllFirstLight(th, f) ==
  \E out \in Outcomes :
    /\ log' = Append(log, SetEntry(f, 1, out))
    /\ ReturnFromMultiSet(th, f,
         IF out.err # "" THEN fixError(1, out.resp, out.err) ELSE NoError)

multiSetAll(th, f) ==
  \E out \in Outcomes :
    /\ log' = Append(log, SetEntry(f, 0, out))
    /\ ReturnFromMultiSet(th, f,
         IF out.err # "" THEN fixError(0, out.resp, out.err) ELSE NoError)

\* else: for _, light := range lights, the iteration at position f.k
multiSetEach(th, f) ==
  LET lights == f.task.lights
      light == lightAt(lights, f.k)
  IN
  IF zeroIsInvalid(light) THEN
    /\ log' = log
    /\ ReturnFromMultiSet(th, f,
         fixError(0, kInvalidLightIdBytes, NoSuchResourceError))
  ELSE
    \E out \in Outcomes :
      /\ log' = Append(log, SetEntry(f, light, out))
      /\ IF stopOnError(out) THEN
           ReturnFromMultiSet(th, f, fixError(light, out.resp, out.err))
         ELSE IF f.k >= lastPosition(lights) THEN
           ReturnFromMultiSet(th, f, NoError)
         ELSE
           /\ threads' = SetTop(th, [f EXCEPT !.k = f.k + 1])
           /\ UNCHANGED <<err, rounds>>

multiSetTakesTime(th) ==
  /\ Running(th)
  /\ Top(th).pc = "multiSet"
  /\ IF Len(Top(th).task.lights) = 0
       THEN multiSetAll(th, Top(th))
       ELSE multiSetEach(th, Top(th))
  /\ now' = now + 1
  /\ UNCHANGED <<call, action, rootLights, ended>>

multiSet(th) ==
  /\ Running(th)
  /\ Top(th).pc = "multiSet"
  /\ IF Len(Top(th).task.lights) = 0
       THEN multiSetAll(th, Top(th))
       ELSE multiSetEach(th, Top(th))
  /\ UNCHANGED <<call, action, rootLights, ended, now>>

-----------------------------------------------------------------------------
(* The composites of package tasks *)

\* seriesTasks.Do: for _, task := range s { task.Do(e) ...
SeriesCall(th) ==
  /\ Running(th)
  /\ Top(th).task.kind = "series"
  /\ Top(th).pc = "start"
  /\ LET f == Top(th)
         i == f.i + 1
     IN threads' = Call(th, [f EXCEPT !.i = i, !.pc = "check"], f.task.tasks[i])
  /\ UNCHANGED <<call, action, rootLights, err, ended, now, log, rounds>>

\* ... if e.IsEnded() || e.Error() != nil { return } }
seriesStopsNever == FALSE

seriesStops == ended \/ err # NoError

SeriesCheck(th) ==
  /\ Running(th)
  /\ Top(th).task.kind = "series"
  /\ Top(th).pc = "check"
  /\ LET f == Top(th) IN
     threads' = IF seriesStops \/ f.i >= Len(f.task.tasks)
                  THEN Pop(th)
                  ELSE SetTop(th, [f EXCEPT !.pc = "start"])
  /\ UNCHANGED <<call, action, rootLights, err, ended, now, log, rounds>>

\* repeatingTask.Do: for i := 0; i < r.n; i++ { r.t.Do(e) ...
RepeatCall(th) ==
  /\ Running(th)
  /\ Top(th).task.kind = "repeat"
  /\ Top(th).pc = "start"
  /\ LET f == Top(th) IN
     threads' = Call(th, [f EXCEPT !.i = f.i + 1, !.pc = "check"],
                     f.task.tasks[1])
  /\ UNCHANGED <<call, action, rootLights, err, ended, now, log, rounds>>

\* ... if e.IsEnded() || e.Error() != nil { return } }
repeatStopsOnEndOnly == ended

repeatStops == ended \/ err # NoError

\* the n of the loop condition i < r.n
repeatLimitOneMore(f) == f.task.n + 1

repeatLimit(f) == f.task.n

RepeatCheck(th) ==
  /\ Running(th)
  /\ Top(th).task.kind = "repeat"
  /\ Top(th).pc = "check"
  /\ LET f == Top(th) IN
     threads' = IF repeatStops \/ f.i >= repeatLimit(f)
                  THEN Pop(th)
                  ELSE SetTop(th, [f EXCEPT !.pc = "start"])
  /\ UNCHANGED <<call, action, rootLights, err, ended, now, log, rounds>>

\* the threads a parallel task running on th starts: one per child
Kids(th, f) == {Append(th, j) : j \in 1..Len(f.task.tasks)}

\* the task the goroutine of child j runs: the t it was started with
forkedTaskLast(f, j) == f.task.tasks[Len(f.task.tasks)]

forkedTask(f, j) == f.task.tasks[j]

\* parallelTasks.Do: go func(t Task) { t.Do(e); wg.Done() }(task) for each
ParallelFork(th) ==
  /\ Running(th)
  /\ Top(th).task.kind = "parallel"
  /\ Top(th).pc = "start"
  /\ LET f == Top(th)
         waiting == SetTop(th, [f EXCEPT !.pc = "wait"])
     IN threads' =
          [t \in DOMAIN threads \cup Kids(th, f) |->
             IF t \in Kids(th, f)
               THEN <<Frame(forkedTask(f, t[Len(t)]))>>
               ELSE waiting[t]]
  /\ UNCHANGED <<call, action, rootLights, err, ended, now, log, rounds>>

\* ... wg.Wait(): returns when every child has returned
ParallelJoin(th) ==
  /\ Running(th)
  /\ Top(th).task.kind = "parallel"
  /\ Top(th).pc = "wait"
  /\ \A t \in Kids(th, Top(th)) : threads[t] = <<>>
  /\ threads' = [t \in DOMAIN threads \ Kids(th, Top(th)) |-> Pop(th)[t]]
  /\ UNCHANGED <<call, action, rootLights, err, ended, now, log, rounds>>


-----------------------------------------------------------------------------
(* The inputs: Action trees and default lights *)

LightIds == 0..MaxLightId
SeqsUpTo(S, n) == UNION {[1..m -> S] : m \in 0..n}
NonEmptySeqsUpTo(S, n) == UNION {[1..m -> S] : m \in 1..n}

\* every list of light ids, 0 included, up to MaxLights long
LightLists == SeqsUpTo(LightIds, MaxLights)
\* the Lights overrides given to leaves and to composite nodes, and the
\* defaults given to trees
NodeLists == {<<>>, <<MaxLightId>>, <<1, MaxLightId>>}
TreeLists == {<<>>, <<1, MaxLightId>>}
RootLists == {<<>>, <<1>>}
Repeats == {0, RepeatN}
\* Repeat counts below 2, negative included, and the count RepeatN
LeafRepeats == {-1, 0, 1, RepeatN}

OnAction == [ZeroAction EXCEPT !.On = TRUE]
OffAction == [ZeroAction EXCEPT !.Off = TRUE]
FullAction ==
  [ZeroAction EXCEPT !.On = TRUE, !.Off = TRUE,
                     !.C = NewMaybeColor(4000, 2000), !.Bri = Just(135),
                     !.TransitionTime = Just(4)]
SleepAction == [ZeroAction EXCEPT !.Sleep = SleepD]

SeriesOf(kids) == [ZeroAction EXCEPT !.Series = kids]
ParallelOf(kids) == [ZeroAction EXCEPT !.Parallel = kids]

\* immediate nodes run alone against every default light list
PatchActions == {OnAction, OffAction, FullAction}

\* leaves with every subset of the fields C, Bri, On, Off and TransitionTime,
\* the empty one included
PatchSubsets ==
  {[ZeroAction EXCEPT !.C = c, !.Bri = b, !.On = on, !.Off = off,
                      !.TransitionTime = t] :
     c \in {NothingColor, NewMaybeColor(4000, 2000)},
     b \in {Nothing, Just(135)},
     on \in BOOLEAN, off \in BOOLEAN,
     t \in {Nothing, Just(4)}}

\* leaves with and without an override and a Repeat count
LeafActions ==
  {WithRepeat(WithLights(p, l), r) :
     p \in PatchActions \cup {SleepAction}, l \in NodeLists,
     r \in LeafRepeats}

\* the children of composite nodes
KidActions ==
  {WithLights(OnAction, l) : l \in {<<>>, <<MaxLightId>>}}
    \cup {SleepAction, WithRepeat(OffAction, RepeatN)}
\* the children of Parallel nodes
ParallelKidActions ==
  {WithLights(OnAction, l) : l \in {<<>>, <<MaxLightId>>}} \cup {SleepAction}

\* child lists with at most one Sleep node
KidLists(kids) ==
  {ks \in NonEmptySeqsUpTo(kids, MaxChildren) :
     Cardinality({i \in DOMAIN ks : ks[i] = SleepAction}) <= 1}

\* one Series node over leaves; repeated when it has one or two children
SeriesActions ==
  {WithLights(SeriesOf(ks), l) : ks \in KidLists(KidActions), l \in TreeLists}
    \cup {WithRepeat(WithLights(SeriesOf(ks), l), RepeatN) :
            ks \in {k \in KidLists(KidActions) : Len(k) <= 2}, l \in TreeLists}

\* one Parallel node over two leaves, or over one leaf and repeated
ParallelActions ==
  {WithLights(ParallelOf(<<k1, k2>>), l) :
     k1 \in ParallelKidActions, k2 \in ParallelKidActions, l \in TreeLists}
    \cup {WithRepeat(ParallelOf(<<k>>), r) :
            k \in ParallelKidActions, r \in Repeats}

\* a composite inside a composite, followed or not by a leaf
InnerActions ==
  {WithLights(c, l) :
     c \in {SeriesOf(<<k>>) : k \in KidActions}
        \cup {ParallelOf(<<k>>) : k \in ParallelKidActions},
     l \in TreeLists}

NestedActions ==
  {WithLights(c, l) :
     c \in {SeriesOf(<<n>> \o t) : n \in InnerActions, t \in {<<>>, <<OnAction>>}}
        \cup {ParallelOf(<<n>> \o t) :
                n \in InnerActions, t \in {<<>>, <<OnAction>>}},
     l \in TreeLists}

\* the curve of TestGradient2 with a brightness on its last element only,
\* and a gradient node over it
Gradient2 ==
  Gradient(<<ColorDuration(NewMaybeColor(2000, 1000), Nothing, 0),
             ColorDuration(NewMaybeColor(3000, 3000), Just(30), 1000)>>,
           600)
GradientOf(g) == [ZeroAction EXCEPT !.G = <<g>>]
GradientAction(on) == [GradientOf(Gradient2) EXCEPT !.On = on]

\* a curve in the manner of TestGradient, with two elements at the same D,
\* refreshed often enough for the drift of the clock to change its samples
Gradient4 ==
  Gradient(<<ColorDuration(NewMaybeColor(2000, 1000), Just(0), 0),
             ColorDuration(NewMaybeColor(3000, 3000), Just(30), 2),
             ColorDuration(NewMaybeColor(9000, 9000), Just(100), 2),
             ColorDuration(NewMaybeColor(8000, 7000), Just(10), 4)>>,
           1)

\* curves whose loop makes no call: one element, or every element at D = 0
Gradient1 ==
  Gradient(<<ColorDuration(NewMaybeColor(2000, 1000), Just(30), 0)>>, 600)
Gradient0 ==
  Gradient(<<ColorDuration(NewMaybeColor(2000, 1000), Nothing, 0),
             ColorDuration(NewMaybeColor(3000, 3000), Just(30), 0)>>,
           600)

\* a curve in the manner of TestGradient3: every element lacks a C or a Bri
\* that one of its neighbours has
Gradient3 ==
  Gradient(<<ColorDuration(NothingColor, Just(255), 0),
             ColorDuration(NewMaybeColor(6750, 3220), Just(155), 2),
             ColorDuration(NewMaybeColor(2000, 1000), Nothing, 4),
             ColorDuration(NothingColor, Just(0), 6)>>,
           1)

\* a curve whose offsets are out of order: the third element comes before
\* the second
GradientUnordered ==
  Gradient(<<ColorDuration(NewMaybeColor(2000, 1000), Just(0), 0),
             ColorDuration(NewMaybeColor(3000, 3000), Just(30), 3),
             ColorDuration(NewMaybeColor(9000, 9000), Just(100), 1),
             ColorDuration(NewMaybeColor(8000, 7000), Just(10), 4)>>,
           1)

\* gradient nodes alone, repeated, and as the first child of a Series or a
\* Parallel
GradientActions ==
  {WithLights(GradientAction(on), l) : on \in BOOLEAN, l \in NodeLists}
    \cup {[GradientOf(g) EXCEPT !.On = on] :
            g \in {Gradient4, Gradient1, Gradient0}, on \in BOOLEAN}
    \cup {WithLights(GradientAction(TRUE), <<1, 0>>),
          GradientOf(Gradient3),
          GradientOf(GradientUnordered),
          WithRepeat(GradientAction(TRUE), 2),
          SeriesOf(<<GradientAction(TRUE), OnAction>>),
          ParallelOf(<<GradientAction(TRUE), OnAction>>)}

\* the tree of TestRepeat
TestRepeatAction == WithRepeat(OnAction, 3)

\* the tree of TestSeries and TestError, alone and repeated
TestSeriesAction ==
  SeriesOf(<<WithLights(OnAction, <<1, MaxLightId>>), SleepAction, OffAction>>)
TestSeriesActions ==
  {TestSeriesAction, WithRepeat(TestSeriesAction, RepeatN)}

\* gradients asTask refuses: no element, or a first element with D # 0
MalformedActions ==
  {GradientOf(Gradient(<<>>, 600)),
   GradientOf(Gradient(<<ColorDuration(NothingColor, Just(30), 500)>>, 600)),
   SeriesOf(<<OnAction, GradientOf(Gradient(<<>>, 600))>>),
   ParallelOf(<<OnAction,
                GradientOf(Gradient(<<ColorDuration(NothingColor, Just(30), 500)>>,
                                    600))>>),
   WithRepeat(
     SeriesOf(<<OnAction, ParallelOf(<<GradientOf(Gradient(<<>>, 600))>>)>>),
     RepeatN)}

\* a Series node that also has a G: asTask looks at Series first and never
\* at the G, which here has no element
SeriesWithG == [SeriesOf(<<OnAction>>) EXCEPT !.G = <<Gradient(<<>>, 600)>>]

\* a curve of two elements, the second at offset d, refreshed every unit
GradientRamp(d) ==
  Gradient(<<ColorDuration(NewMaybeColor(2000, 1000), Just(0), 0),
             ColorDuration(NewMaybeColor(3000, 3000), Just(30), d)>>,
           1)

\* a gradient node over the shortest such curve, with On
RampAction == [GradientOf(GradientRamp(1)) EXCEPT !.On = TRUE]

\* bodies to run RepeatN times, with the default lights they run against:
\* immediate nodes, a sleep, the Series of TestSeries and a gradient
RepeatBodies ==
  {<<WithLights(OnAction, <<1, MaxLightId>>), <<1>>>>,
   <<FullAction, <<1>>>>,
   <<SleepAction, <<1>>>>,
   <<TestSeriesAction, <<>>>>,
   <<RampAction, <<1>>>>}

\* the node b with Repeat = n, and a Series of n nodes b
RepeatOf(b, n) == WithRepeat(b, n)
CopiesOf(b, n) == SeriesOf([i \in 1..n |-> b])

\* each body repeated, and as many copies of it in a Series
RepeatPairs ==
  {<<RepeatOf(in[1], RepeatN), in[2]>> : in \in RepeatBodies}
    \cup {<<CopiesOf(in[1], RepeatN), in[2]>> : in \in RepeatBodies}

\* Parallel nodes over two gradients with On, each with its own lights, and
\* over a sleep and a gradient with On
ParallelGradients ==
  {ParallelOf(<<RampAction, WithLights(RampAction, <<MaxLightId>>)>>),
   ParallelOf(<<SleepAction, [GradientOf(GradientRamp(2)) EXCEPT !.On = TRUE]>>)}

\* nodes with more than one of Parallel, Series, G, patch fields and Sleep:
\* all five, with a G that has no element; all but Parallel; a well-formed G
\* with every patch field and a Sleep; patch fields and a Sleep
MixedActions ==
  {[FullAction EXCEPT !.Parallel = <<OnAction>>, !.Series = <<OffAction, OnAction>>,
                      !.G = <<Gradient(<<>>, 600)>>, !.Sleep = SleepD],
   [FullAction EXCEPT !.Series = <<OffAction, OnAction>>,
                      !.G = <<Gradient(<<>>, 600)>>, !.Sleep = SleepD],
   [FullAction EXCEPT !.G = <<GradientRamp(1)>>, !.Sleep = SleepD],
   [FullAction EXCEPT !.Sleep = SleepD]}

Inputs ==
  RepeatPairs \cup
  {<<a, <<1>>>> : a \in ParallelGradients \cup MixedActions} \cup
  {<<a, l>> : a \in PatchActions, l \in LightLists}
    \cup {<<a, l>> : a \in LeafActions \cup GradientActions, l \in RootLists}
    \cup {<<a, <<>>>> :
            a \in TestSeriesActions \cup {TestRepeatAction} \cup PatchSubsets}
    \cup {<<a, <<1>>>> :
            a \in SeriesActions \cup ParallelActions \cup NestedActions
                    \cup MalformedActions \cup {SeriesWithG}}

-----------------------------------------------------------------------------
(* The run: tasks.RunForTesting(action.AsTask(setter, rootLights), clock) *)

\* no function of Color is called during a run
NoCall == [op |-> "none", done |-> FALSE]

Init ==
  /\ \E in \in Inputs : action = in[1] /\ rootLights = in[2]
  /\ err = NoError
  /\ ended = FALSE
  /\ now = 0
  /\ log = <<>>
  /\ rounds = <<>>
  /\ call = NoCall
  /\ threads = [t \in {Root} |->
                  IF Panics(AsTask(action, rootLights, <<>>))
                    THEN <<>>
                    ELSE <<NewFrame(AsTask(action, rootLights, <<>>), 0, 0)>>]

Next ==
  \/ End
  \/ \E th \in DOMAIN threads : DoOnOff(th)
  \/ \E th \in DOMAIN threads : DoSleep(th)
  \/ \E th \in DOMAIN threads : DoGradient(th)
  \/ \E th \in DOMAIN threads : GradientCheck(th)
  \/ \E th \in DOMAIN threads : GradientSleep(th)
  \/ \E th \in DOMAIN threads : multiSet(th)
  \/ \E th \in DOMAIN threads : SeriesCall(th)
  \/ \E th \in DOMAIN threads : SeriesCheck(th)
  \/ \E th \in DOMAIN threads : RepeatCall(th)
  \/ \E th \in DOMAIN threads : RepeatCheck(th)
  \/ \E th \in DOMAIN threads : ParallelFork(th)
  \/ \E th \in DOMAIN threads : ParallelJoin(th)

Spec == Init /\ [][Next]_vars

-----------------------------------------------------------------------------
(* The functions of Color and the blend of two brightnesses, each called   *)
(* once on arguments drawn from bounded sets, with no Action running        *)

Color(x, y) == [x |-> x, y |-> y]

\* colors of hue.go and of TestColorBlend, the corners of the unit square,
\* the smallest steps and coordinates up to the largest uint16
Colors ==
  {Color(0, 0), Color(1, 0), Color(0, 1), Color(3000, 2000),
   Color(2000, 6000), Color(6750, 3220), Color(maxu16, 0),
   Color(0, maxu16), Color(65535, 2000), Color(4464, 65535)}

\* float64 coordinates in [0, 1]: every multiple of 1 / (maxu16 * Fine)
\* around three multiples of 1 / maxu16, and 1
Floats ==
  {k * Fine + f : k \in {0, 1234, maxu16 - 1}, f \in 0..(Fine - 1)}
    \cup {maxu16 * Fine}

\* brightnesses: gohue.Dim, gohue.Bright, their neighbours, the middle of
\* the range, and none
Brightnesses == {Nothing} \cup {Just(v) : v \in {0, 1, 2, 127, 254, 255}}

ColorCalls ==
  {[op |-> "Blend", done |-> FALSE, c |-> c, other |-> o, n |-> n,
    d |-> RatioDen] : c \in Colors, o \in Colors, n \in 0..RatioDen}
    \cup {[op |-> "NewColor", done |-> FALSE, x |-> x, y |-> y] :
            x \in Floats, y \in Floats}
    \cup {[op |-> "RoundTrip", done |-> FALSE, c |-> c] : c \in Colors}
    \cup {[op |-> "BlendBrightness", done |-> FALSE, first |-> f,
            second |-> g, n |-> n, d |-> RatioDen] :
            f \in Brightnesses, g \in Brightnesses, n \in 0..RatioDen}

ColorInit ==
  /\ action = ZeroAction
  /\ rootLights = <<>>
  /\ threads = [t \in {Root} |-> <<>>]
  /\ err = NoError
  /\ ended = FALSE
  /\ now = 0
  /\ log = <<>>
  /\ rounds = <<>>
  /\ call \in ColorCalls

\* c.Blend(other, ratio)
CallBlend ==
  /\ call.op = "Blend"
  /\ ~call.done
  /\ call' = [op |-> "Blend", done |-> TRUE, c |-> call.c,
              other |-> call.other, n |-> call.n, d |-> call.d,
              out |-> Blend(call.c, call.other, call.n, call.d)]
  /\ UNCHANGED <<action, rootLights, threads, err, ended, now, log, rounds>>

\* c := NewColor(x, y), read back by c.X() and c.Y()
CallNewColor ==
  /\ call.op = "NewColor"
  /\ ~call.done
  /\ call' = [op |-> "NewColor", done |-> TRUE, x |-> call.x, y |-> call.y,
              out |-> NewColor(call.x, call.y),
              backX |-> X(NewColor(call.x, call.y)),
              backY |-> Y(NewColor(call.x, call.y))]
  /\ UNCHANGED <<action, rootLights, threads, err, ended, now, log, rounds>>

\* NewColor(c.X(), c.Y())
CallRoundTrip ==
  /\ call.op = "RoundTrip"
  /\ ~call.done
  /\ call' = [op |-> "RoundTrip", done |-> TRUE, c |-> call.c,
              out |-> NewColor(X(call.c), Y(call.c))]
  /\ UNCHANGED <<action, rootLights, threads, err, ended, now, log, rounds>>

\* maybeBlendBrightness(first, second, ratio)
CallBlendBrightness ==
  /\ call.op = "BlendBrightness"
  /\ ~call.done
  /\ call' = [op |-> "BlendBrightness", done |-> TRUE, first |-> call.first,
              second |-> call.second, n |-> call.n, d |-> call.d,
              out |-> maybeBlendBrightness(call.first, call.second,
                                           call.n, call.d)]
  /\ UNCHANGED <<action, rootLights, threads, err, ended, now, log, rounds>>

ColorNext ==
  \/ CallBlend
  \/ CallNewColor
  \/ CallRoundTrip
  \/ CallBlendBrightness

ColorSpec == ColorInit /\ [][ColorNext]_vars


-----------------------------------------------------------------------------
(* Reading the history *)

Range(q) == {q[j] : j \in DOMAIN q}
Front(q) == SubSeq(q, 1, Len(q) - 1)
IsPrefix(p, q) == Len(p) <= Len(q) /\ SubSeq(q, 1, Len(p)) = p

RoundIds == 1..Len(rounds)

\* the positions in log of the Setter.Set calls of round r, and the calls
CallsAt(r) == {j \in 1..Len(log) : log[j].ev = "Set" /\ log[j].round = r}
Calls(r) ==
  LET OfRound(e) == e.ev = "Set" /\ e.round = r IN SelectSeq(log, OfRound)
CalledIds(r) == [j \in 1..Len(Calls(r)) |-> Calls(r)[j].L]
AllCallsOk(r) == \A j \in CallsAt(r) : log[j].ok
FailedCalls(r) == {j \in CallsAt(r) : ~log[j].ok}

\* the position of the first 0 of a list that holds one
FirstZero(lights) ==
  CHOOSE z \in 1..Len(lights) :
    lights[z] = 0 /\ \A y \in 1..(z - 1) : lights[y] # 0

\* round r went over a non-empty list and stopped at a 0 in it
MetZero(r) ==
  /\ rounds[r].done
  /\ rounds[r].lights # <<>>
  /\ 0 \in Range(rounds[r].lights)
  /\ AllCallsOk(r)

\* the node of the Action tree at a path of child indices
RECURSIVE NodeAt(_, _)
NodeAt(a, path) ==
  IF path = <<>> THEN a
  ELSE NodeAt(Children(a)[path[1]], SubSeq(path, 2, Len(path)))

\* the light list of the node at path by the rule of the Action.Lights
\* comment: its own Lights, or else its parent's list, or else the default
RECURSIVE Resolved(_)
Resolved(path) ==
  IF NodeAt(action, path).Lights # <<>> THEN NodeAt(action, path).Lights
  ELSE IF path = <<>> THEN rootLights
  ELSE Resolved(Front(path))

\* the frames of all threads: <<thread, position in its stack>>
LiveFrames ==
  UNION {{<<th, j>> : j \in 1..Len(threads[th])} : th \in DOMAIN threads}
FrameOf(x) == threads[x[1]][x[2]]

-----------------------------------------------------------------------------
(* Claims *)

\* C1: every dispatch round of a node goes over the node's own Lights when
\* that list is non-empty and otherwise over the list resolved for its parent
\* (the default given to AsTask at the root), so an override reaches every
\* descendant without one; every call of the round targets an id of that list
\* (id 0 when the list is empty).
C1_TargetResolution ==
  \A r \in RoundIds :
    /\ rounds[r].lights = Resolved(rounds[r].node)
    /\ \A j \in CallsAt(r) :
         log[j].L \in (IF Resolved(rounds[r].node) = <<>>
                         THEN {0} ELSE Range(Resolved(rounds[r].node)))

\* a grandchild without Lights, under a child without Lights, dispatched to
\* the override of the root
C1_Witness ==
  \E r \in RoundIds :
    /\ Len(rounds[r].node) = 2
    /\ NodeAt(action, rounds[r].node).Lights = <<>>
    /\ NodeAt(action, Front(rounds[r].node)).Lights = <<>>
    /\ action.Lights # <<>>
    /\ action.Lights # rootLights
    /\ rounds[r].done
    /\ CalledIds(r) = action.Lights

\* C2: a dispatch round over an empty resolved list makes exactly one
\* Setter call, and that call uses light id 0.
C2_Broadcast ==
  \A r \in RoundIds :
    rounds[r].lights = <<>> =>
      /\ Len(Calls(r)) <= 1
      /\ rounds[r].done => Len(Calls(r)) = 1
      /\ \A j \in CallsAt(r) : log[j].L = 0

C2_Witness ==
  \E r \in RoundIds :
    /\ rounds[r].lights = <<>>
    /\ rounds[r].done
    /\ CalledIds(r) = <<0>>

\* C3: a dispatch round over a non-empty list without 0 whose Setter calls
\* all succeed calls the Setter once per list position, in list order, every
\* call with the patch of the round.
C3_ListOrder ==
  \A r \in RoundIds :
    (/\ rounds[r].lights # <<>>
     /\ 0 \notin Range(rounds[r].lights)
     /\ AllCallsOk(r)) =>
      /\ IsPrefix(CalledIds(r), rounds[r].lights)
      /\ rounds[r].done => CalledIds(r) = rounds[r].lights
      /\ \A j \in CallsAt(r) :
           /\ log[j].props = rounds[r].props
           /\ log[j].props = Calls(r)[1].props

\* a finished round over two different ids, the larger one first
C3_Witness ==
  \E r \in RoundIds :
    /\ rounds[r].done
    /\ Len(rounds[r].lights) >= 2
    /\ rounds[r].lights[1] > rounds[r].lights[2]
    /\ 0 \notin Range(rounds[r].lights)
    /\ AllCallsOk(r)
    /\ CalledIds(r) = rounds[r].lights
    /\ rounds[r].props.C.Valid

\* C4: a dispatch round over a non-empty list that holds 0 calls the Setter,
\* in order, only for the ids before the first 0, then ends with a failure:
\* no call of the round uses id 0 or an id after the 0.
C4_ZeroInList ==
  \A r \in RoundIds :
    (rounds[r].lights # <<>> /\ 0 \in Range(rounds[r].lights)) =>
      LET before == SubSeq(rounds[r].lights, 1,
                           FirstZero(rounds[r].lights) - 1)
      IN /\ IsPrefix(CalledIds(r), before)
         /\ \A j \in CallsAt(r) : log[j].L # 0
         /\ rounds[r].done => rounds[r].error # NoError /\ err # NoError
         /\ (rounds[r].done /\ AllCallsOk(r)) => CalledIds(r) = before

\* the list {1, 0, 2}: exactly one call, to id 1
C4_Witness ==
  \E r \in RoundIds :
    /\ rounds[r].lights = <<1, 0, 2>>
    /\ rounds[r].done
    /\ AllCallsOk(r)
    /\ CalledIds(r) = <<1>>
    /\ Done

\* C5: the failure recorded when id 0 is met inside a non-empty list is a
\* NoSuchLightIdError with LightId 0 and message "Invalid light id"; it is
\* the error of the run when no other round failed.
C5_InvalidLightIdError ==
  \A r \in RoundIds :
    MetZero(r) =>
      /\ rounds[r].error.type = "NoSuchLightIdError"
      /\ rounds[r].error.LightId = 0
      /\ ErrorString(rounds[r].error) = "Invalid light id"
      /\ (\A q \in RoundIds \ {r} : rounds[q].error = NoError) =>
           err = rounds[r].error

C5_Witness ==
  \E r \in RoundIds :
    /\ MetZero(r)
    /\ Len(Calls(r)) = 1
    /\ Done
    /\ err.type = "NoSuchLightIdError"
    /\ err.LightId = 0

\* C6 as stated: the failure for id 0 inside a non-empty list is of a third
\* kind, neither the unknown-light kind nor the opaque kind.
C6_ThirdKind ==
  \A r \in RoundIds :
    MetZero(r) =>
      rounds[r].error.type \notin {"NoSuchLightIdError", "errorString"}

\* C6 amended: the failure for id 0 inside a non-empty list is raised without
\* a Setter call for that id and is of the unknown-light kind
\* (NoSuchLightIdError), not of the opaque kind.
C6_SameKindRaisedLocally ==
  \A r \in RoundIds :
    /\ MetZero(r) =>
         /\ rounds[r].error.type = "NoSuchLightIdError"
         /\ rounds[r].error.type # "errorString"
         /\ FailedCalls(r) = {}
    /\ (rounds[r].lights # <<>>) => \A j \in CallsAt(r) : log[j].L # 0

C6_Witness ==
  \E r \in RoundIds :
    /\ MetZero(r)
    /\ rounds[r].lights[1] = 0
    /\ Calls(r) = <<>>
    /\ rounds[r].error.type = "NoSuchLightIdError"

\* C7: in a dispatch round over a non-empty list a failing Setter call is the
\* last call of the round, and the failure is recorded on the execution.
C7_FirstFailureAborts ==
  \A r \in RoundIds :
    rounds[r].lights # <<>> =>
      \A j \in 1..Len(Calls(r)) :
        ~Calls(r)[j].ok =>
          /\ j = Len(Calls(r))
          /\ rounds[r].done
          /\ rounds[r].error # NoError
          /\ err # NoError

\* the first of several ids failed and the run is over
C7_Witness ==
  \E r \in RoundIds :
    /\ Len(rounds[r].lights) >= 2
    /\ 0 \notin Range(rounds[r].lights)
    /\ Len(Calls(r)) = 1
    /\ ~Calls(r)[1].ok
    /\ Done

\* C8: a Setter call for light id L that fails with the no-such-resource
\* error records a NoSuchLightIdError with LightId L whose RawResponse and
\* message are the raw response of that call; it is the error of the run when
\* no other round failed.
C8_UnknownLight ==
  \A r \in RoundIds : \A j \in FailedCalls(r) :
    log[j].err = NoSuchResourceError =>
      /\ rounds[r].error.type = "NoSuchLightIdError"
      /\ rounds[r].error.LightId = log[j].L
      /\ rounds[r].error.RawResponse = log[j].resp
      /\ ErrorString(rounds[r].error) = log[j].resp
      /\ (\A q \in RoundIds \ {r} : rounds[q].error = NoError) =>
           err = rounds[r].error

C8_Witness ==
  \E r \in RoundIds : \E j \in FailedCalls(r) :
    /\ log[j].err = NoSuchResourceError
    /\ log[j].L = 2
    /\ log[j].resp = "hello"
    /\ Done
    /\ err.LightId = 2

\* C9: a Setter call that fails with any other error records an error that
\* is no NoSuchLightIdError and whose message is the raw response of that
\* call, not the Setter's own error; it is the error of the run when no other
\* round failed.
C9_Opaque ==
  \A r \in RoundIds : \A j \in FailedCalls(r) :
    log[j].err # NoSuchResourceError =>
      /\ rounds[r].error.type = "errorString"
      /\ ErrorString(rounds[r].error) = log[j].resp
      /\ ErrorString(rounds[r].error) # log[j].err
      /\ (\A q \in RoundIds \ {r} : rounds[q].error = NoError) =>
           /\ err = rounds[r].error
           /\ err.type # "NoSuchLightIdError"

C9_Witness ==
  \E r \in RoundIds : \E j \in FailedCalls(r) :
    /\ log[j].err = GeneralError
    /\ log[j].resp = "hello"
    /\ Done
    /\ ErrorString(err) = "hello"

\* the history a running Series task has made since it started: the events
\* of its node's children, each with the index of the child
SeriesEvents(f) ==
  {j \in (f.logStart + 1)..Len(log) :
     /\ Len(log[j].node) > Len(f.task.path)
     /\ IsPrefix(f.task.path, log[j].node)}
ChildOf(f, j) == log[j].node[Len(f.task.path) + 1]

\* C10: while a Series node runs, the Setter calls and suspensions of its
\* children appear in the order of the children: none of child i+1 comes
\* before one of child i, and none comes from a child the Series has not
\* reached yet.
C10_SeriesOrder ==
  \A x \in LiveFrames :
    FrameOf(x).task.kind = "series" =>
      /\ \A p \in SeriesEvents(FrameOf(x)) : \A q \in SeriesEvents(FrameOf(x)) :
           p < q => ChildOf(FrameOf(x), p) <= ChildOf(FrameOf(x), q)
      /\ \A p \in SeriesEvents(FrameOf(x)) :
           ChildOf(FrameOf(x), p) <= FrameOf(x).i

\* a Series whose first child suspended and called the Setter, or called it
\* twice, and whose second child has called it
C10_Witness ==
  \E x \in LiveFrames :
    /\ FrameOf(x).task.kind = "series"
    /\ FrameOf(x).i = 2
    /\ Cardinality({p \in SeriesEvents(FrameOf(x)) :
                      ChildOf(FrameOf(x), p) = 1}) >= 2
    /\ \E p \in SeriesEvents(FrameOf(x)) :
         ChildOf(FrameOf(x), p) = 2 /\ log[p].ev = "Set"

\* a tree built from Series, Repeat and leaf nodes only
RECURSIVE ParallelFree(_)
ParallelFree(a) ==
  /\ Len(a.Parallel) = 0
  /\ \A i \in 1..Len(a.Series) : ParallelFree(a.Series[i])

\* C11: in a tree without Parallel nodes a failing dispatch round is the last
\* round of the run and its failing Setter call the last event of the run: no
\* Setter call, no suspension and no round comes after it, and its failure is
\* the error of the run.
C11_SeriesRepeatPropagation ==
  ParallelFree(action) =>
    /\ \A j \in Failures : j = Len(log)
    /\ \A r \in RoundIds :
         rounds[r].error # NoError =>
           /\ r = Len(rounds)
           /\ rounds[r].end = Len(log)
           /\ err = rounds[r].error

\* TestError: the repeated Series of TestSeries is over after the first call
\* of its first child failed
C11_Witness ==
  /\ action = WithRepeat(TestSeriesAction, RepeatN)
  /\ Done
  /\ ~ended
  /\ Len(log) = 1
  /\ ~log[1].ok
  /\ log[1].L = 1
  /\ Len(rounds) = 1
  /\ err = rounds[1].error
  /\ err # NoError

\* a node that asTask compiles to the sleep TaskFunc
IsSleepNode(a) ==
  /\ Len(a.Parallel) = 0
  /\ Len(a.Series) = 0
  /\ a.G = <<>>
  /\ ~(a.C.Valid \/ a.Bri.Valid \/ a.On \/ a.Off)

\* the suspensions logged strictly between positions p and q
SleepsBetween(p, q) == {j \in (p + 1)..(q - 1) : log[j].ev = "Sleep"}

\* C12: a Sleep node calls the Setter never and suspends for its Sleep
\* duration; while a Series runs, the Setter calls of the children after a
\* Sleep child come after its suspension, which was not cancelled, at a time
\* at least Sleep later than the calls of the children before it, and exactly
\* Sleep later when that suspension is the only one in between and the clock
\* moved by exactly Sleep.
C12_SleepNode ==
  /\ \A j \in 1..Len(log) :
       IF IsSleepNode(NodeAt(action, log[j].node))
         THEN /\ log[j].ev = "Sleep"
              /\ log[j].d = NodeAt(action, log[j].node).Sleep
              /\ log[j].ok => log[j].adv >= log[j].d
         ELSE TRUE
  /\ \A r \in RoundIds : ~IsSleepNode(NodeAt(action, rounds[r].node))
  /\ \A x \in LiveFrames :
       FrameOf(x).task.kind = "series" =>
         \A s \in SeriesEvents(FrameOf(x)) :
           (/\ log[s].ev = "Sleep"
            /\ log[s].node = Append(FrameOf(x).task.path, ChildOf(FrameOf(x), s))
            /\ IsSleepNode(NodeAt(action, log[s].node))) =>
             \A q \in SeriesEvents(FrameOf(x)) :
               (log[q].ev = "Set"
                  /\ ChildOf(FrameOf(x), q) > ChildOf(FrameOf(x), s)) =>
                 /\ q > s
                 /\ log[s].ok
                 /\ log[q].D >= log[s].D + log[s].d
                 /\ \A p \in SeriesEvents(FrameOf(x)) :
                      (log[p].ev = "Set"
                         /\ ChildOf(FrameOf(x), p) < ChildOf(FrameOf(x), s)) =>
                        /\ p < s
                        /\ log[q].D >= log[p].D + log[s].d
                        /\ (SleepsBetween(p, q) = {s}
                              /\ log[s].adv = log[s].d) =>
                             log[q].D = log[p].D + log[s].d

\* TestSeries: two calls at one time, the suspension, and the call of the
\* third child exactly SleepD later
C12_Witness ==
  /\ action = TestSeriesAction
  /\ Len(log) = 4
  /\ log[1].ev = "Set" /\ log[2].ev = "Set"
  /\ log[3].ev = "Sleep" /\ log[3].ok /\ log[3].d = SleepD
  /\ log[4].ev = "Set" /\ log[4].ok
  /\ log[4].props.On = JustBool(FALSE)
  /\ log[2].D = log[1].D
  /\ log[4].D = log[1].D + SleepD

\* a tree without gradient nodes
RECURSIVE GradientFree(_)
GradientFree(a) ==
  /\ Len(a.Parallel) > 0 \/ Len(a.Series) > 0 \/ a.G = <<>>
  /\ \A i \in 1..Len(Children(a)) : GradientFree(Children(a)[i])

\* n copies of the sequence q, one after the other
RECURSIVE Copies(_, _)
Copies(q, n) == IF n <= 0 THEN <<>> ELSE q \o Copies(q, n - 1)

RECURSIVE Concat(_)
Concat(qs) == IF qs = <<>> THEN <<>> ELSE qs[1] \o Concat(Tail(qs))

MaxOf(m, n) == IF m >= n THEN m ELSE n

\* what a log entry says apart from its time and its round
Shown(e) == [ev |-> e.ev, node |-> e.node, L |-> e.L, props |-> e.props, d |-> e.d]

\* the log of a run of the node a at path in which every call succeeds and
\* nothing is cancelled, for a tree without Parallel and gradient nodes:
\* MaxOf(1, Repeat) copies of the log of its body
RECURSIVE ExpectedLog(_, _, _)
ExpectedBody(a, lights0, path) ==
  LET lights == IF a.Lights # <<>> THEN a.Lights ELSE lights0
      ids == IF lights = <<>> THEN <<0>> ELSE lights
  IN IF Len(a.Series) > 0
       THEN Concat([i \in 1..Len(a.Series) |->
                      ExpectedLog(a.Series[i], lights, Append(path, i))])
     ELSE IF IsSleepNode(a)
       THEN <<[ev |-> "Sleep", node |-> path, L |-> 0,
               props |-> ZeroProperties, d |-> a.Sleep]>>
     ELSE [k \in 1..Len(ids) |->
             [ev |-> "Set", node |-> path, L |-> ids[k],
              props |-> doOnOff(a), d |-> 0]]
ExpectedLog(a, lights0, path) ==
  Copies(ExpectedBody(a, lights0, path), MaxOf(1, a.Repeat))

\* the paths of the nodes of the tree a, from path on
RECURSIVE Paths(_, _)
Paths(a, path) ==
  {path} \cup UNION {Paths(Children(a)[i], Append(path, i)) :
                       i \in 1..Len(Children(a))}

\* how often the node at path runs: the product of MaxOf(1, Repeat) over the
\* node and the nodes above it
RECURSIVE Multiplicity(_)
Multiplicity(path) ==
  MaxOf(1, NodeAt(action, path).Repeat)
    * (IF path = <<>> THEN 1 ELSE Multiplicity(Front(path)))

\* AsTask returned a task: the tree holds no gradient that makes it panic
Compiles == ~Panics(AsTask(action, rootLights, <<>>))

\* the run is over, every call succeeded and nothing was cancelled
Succeeded == Compiles /\ Done /\ err = NoError /\ ~ended

\* C13: after a run in which every call succeeded and nothing was cancelled,
\* a node with Repeat = N has run its body MaxOf(1, N) times: without
\* Parallel and gradient nodes the log is, node by node, MaxOf(1, N)
\* consecutive copies of the log of the body, and in every tree an immediate
\* node has made as many rounds, and a Sleep node as many suspensions, as the
\* Repeat counts of the node and of the nodes above it multiply to.
C13_RepeatCount ==
  Succeeded =>
    /\ (ParallelFree(action) /\ GradientFree(action)) =>
         [j \in 1..Len(log) |-> Shown(log[j])]
           = ExpectedLog(action, rootLights, <<>>)
    /\ \A path \in Paths(action, <<>>) :
         LET a == NodeAt(action, path) IN
         (Children(a) = <<>> /\ a.G = <<>>) =>
           IF IsSleepNode(a)
             THEN Cardinality({j \in 1..Len(log) : log[j].node = path})
                    = Multiplicity(path)
             ELSE Cardinality({r \in RoundIds : rounds[r].node = path})
                    = Multiplicity(path)

\* the Series of TestSeries, repeated RepeatN times, made RepeatN times the
\* four events of TestSeries
C13_Witness ==
  /\ action = WithRepeat(TestSeriesAction, RepeatN)
  /\ Succeeded
  /\ Len(log) = 4 * RepeatN
  /\ \A j \in 1..Len(log) : (log[j].ev = "Sleep") <=> (j % 4 = 3)

\* the rounds a running Repeat made in the iterations before the one in
\* progress: x is the place of its frame, the frame above it is the iteration
EarlierIterations(x) ==
  {r \in RoundIds :
     /\ r > FrameOf(x).roundStart
     /\ r <= threads[x[1]][x[2] + 1].roundStart
     /\ IsPrefix(FrameOf(x).task.path, rounds[r].node)}

\* C14: an iteration of a Repeat begins only when no round of the earlier
\* iterations failed; a repeated immediate node whose first Setter call
\* fails, as with a Setter that fails on every call, makes that call only.
C14_RepeatAbort ==
  /\ \A x \in LiveFrames :
       (FrameOf(x).task.kind = "repeat" /\ x[2] < Len(threads[x[1]])) =>
         \A r \in EarlierIterations(x) : rounds[r].error = NoError
  /\ (/\ action.Repeat >= 2
      /\ Children(action) = <<>>
      /\ action.G = <<>>
      /\ Len(log) >= 1
      /\ ~log[1].ok) => Len(log) = 1

\* Repeat(Immediate(On=true), 3): one failed call and the run is over
C14_Witness ==
  /\ action = TestRepeatAction
  /\ Done
  /\ ~ended
  /\ Len(log) = 1
  /\ ~log[1].ok
  /\ err # NoError

\* a node that asTask compiles to the doGradient TaskFunc, and its rounds
IsGradientNode(a) ==
  Len(a.Parallel) = 0 /\ Len(a.Series) = 0 /\ a.G # <<>>
GradientRounds ==
  {r \in RoundIds : IsGradientNode(NodeAt(action, rounds[r].node))}

\* C15: the first round of one run of a gradient node carries On = true when
\* the node has On set; no other round of a gradient carries an On value, in
\* its patch or in any of its Setter calls.
C15_GradientOn ==
  \A r \in GradientRounds :
    LET on == IF rounds[r].prev = 0 /\ NodeAt(action, rounds[r].node).On
                THEN JustBool(TRUE) ELSE NothingBool
    IN /\ rounds[r].props.On = on
       /\ \A j \in CallsAt(r) : log[j].props.On = on

\* a gradient with On whose first round carried On = true and whose second
\* and third did not
C15_Witness ==
  \E r \in GradientRounds :
    /\ rounds[r].prev # 0
    /\ rounds[rounds[r].prev].prev # 0
    /\ rounds[rounds[rounds[r].prev].prev].prev = 0
    /\ rounds[rounds[rounds[r].prev].prev].props.On = JustBool(TRUE)
    /\ rounds[rounds[r].prev].props.On = NothingBool
    /\ rounds[r].props.On = NothingBool
    /\ rounds[r].done
    /\ CallsAt(r) # {}

\* the rounds and the events of the node at path, and whether it is running
RoundsAt(path) == {r \in RoundIds : rounds[r].node = path}
EventsAt(path) == {j \in 1..Len(log) : log[j].node = path}
RunningAt(path) == \E x \in LiveFrames : FrameOf(x).task.path = path
LastRoundAt(path) ==
  CHOOSE r \in RoundsAt(path) : \A q \in RoundsAt(path) : q <= r

\* the gradient at path met no failure and no cancellation so far
Undisturbed(path) ==
  /\ \A r \in RoundsAt(path) : rounds[r].error = NoError
  /\ ParallelFree(action) \/ err = NoError
  /\ \A j \in EventsAt(path) : log[j].ev = "Sleep" => log[j].ok

\* the last element of the curve of the gradient node a
LastCd(a) == a.G[1].Cds[Len(a.G[1].Cds)]

\* C16: when a gradient node that met no failure and no cancellation is not
\* running any more, however far the clock went beyond Refresh in each of
\* its suspensions, its last round was made after the loop, carries the C
\* and the Bri of the last element of the curve, flags included, and is
\* finished, and nothing of the node comes after the calls of that round.
C16_TerminalState ==
  \A path \in Paths(action, <<>>) :
    (/\ IsGradientNode(NodeAt(action, path))
     /\ RoundsAt(path) # {}
     /\ ~RunningAt(path)
     /\ Undisturbed(path)) =>
      LET r == LastRoundAt(path)
          last == LastCd(NodeAt(action, path))
      IN /\ rounds[r].done
         /\ rounds[r].idx >= Len(NodeAt(action, path).G[1].Cds)
         /\ rounds[r].props.C = last.C
         /\ rounds[r].props.Bri = last.Bri
         /\ \A j \in CallsAt(r) :
              log[j].props.C = last.C /\ log[j].props.Bri = last.Bri
         /\ CallsAt(r) # {}
         /\ \A j \in EventsAt(path) : j <= rounds[r].end

\* the curve of four elements run with a clock that drifted: a suspension
\* took longer than Refresh, fewer than five rounds were made, and the last
\* one carries the last element
C16_Witness ==
  /\ action.G = <<Gradient4>>
  /\ Done
  /\ Undisturbed(<<>>)
  /\ \E j \in EventsAt(<<>>) : log[j].ev = "Sleep" /\ log[j].adv > log[j].d
  /\ Cardinality(RoundsAt(<<>>)) < 5
  /\ rounds[LastRoundAt(<<>>)].props.C = NewMaybeColor(8000, 7000)
  /\ rounds[LastRoundAt(<<>>)].props.Bri = Just(10)

\* the rounds made after the loop of doGradient: the final patches
FinalRounds ==
  {r \in GradientRounds :
     rounds[r].idx >= Len(NodeAt(action, rounds[r].node).G[1].Cds)}

\* C17 as stated: the final patch of a gradient never has On set, whatever
\* the curve and the On flag of the node.
C17_FinalNoOn ==
  \A r \in FinalRounds : rounds[r].props.On = NothingBool

\* C17 amended: the final patch has no On when the loop made a round before
\* it; when the loop made none, which happens only for a curve none of whose
\* elements has a D above 0 (a single element, or all at D = 0), the final
\* patch is the first round of the curve and carries On = true exactly when
\* the node has On set.  It never carries On = false.
C17_FinalOnOnlyWhenFirst ==
  \A r \in FinalRounds :
    LET a == NodeAt(action, rounds[r].node) IN
    /\ rounds[r].props.On # JustBool(FALSE)
    /\ rounds[r].prev # 0 => rounds[r].props.On = NothingBool
    /\ rounds[r].prev = 0 =>
         /\ \A i \in 1..Len(a.G[1].Cds) : a.G[1].Cds[i].D <= 0
         /\ rounds[r].props.On = (IF a.On THEN JustBool(TRUE) ELSE NothingBool)
    /\ \A j \in CallsAt(r) : log[j].props.On = rounds[r].props.On

\* the final patch of a curve of one element, on a node with On: it is the
\* first round and carries On = true
C17_Witness ==
  \E r \in FinalRounds :
    /\ NodeAt(action, rounds[r].node).G = <<Gradient1>>
    /\ NodeAt(action, rounds[r].node).On
    /\ rounds[r].prev = 0
    /\ rounds[r].done
    /\ CallsAt(r) # {}
    /\ rounds[r].props.On = JustBool(TRUE)
    /\ rounds[r].props.Bri = Just(30)

\* C18: a round of a gradient node that fails, by an error of the Setter or
\* by id 0 in the list, is the end of the curve: the node makes no round, no
\* Setter call and no suspension after it, so no final patch either, and the
\* failure is the error of the run when no other round failed.
C18_GradientFailure ==
  \A r \in GradientRounds :
    rounds[r].error # NoError =>
      /\ rounds[r].done
      /\ \A q \in RoundsAt(rounds[r].node) : q <= r
      /\ \A j \in EventsAt(rounds[r].node) : j <= rounds[r].end
      /\ (r \notin FinalRounds) =>
           \A q \in FinalRounds : rounds[q].node # rounds[r].node \/ q < r
      /\ (\A q \in RoundIds \ {r} : rounds[q].error = NoError) =>
           err = rounds[r].error

\* a gradient over the list {1, 0}: its first round called the Setter for
\* light 1, failed at id 0, and the run is over without a suspension
C18_Witness ==
  /\ action = WithLights(GradientAction(TRUE), <<1, 0>>)
  /\ Done
  /\ ~ended
  /\ Len(rounds) = 1
  /\ rounds[1].error.type = "NoSuchLightIdError"
  /\ Len(log) = 1
  /\ log[1].ok
  /\ err = rounds[1].error

\* the suspensions that reported cancellation
Cancelled == {s \in 1..Len(log) : log[s].ev = "Sleep" /\ ~log[s].ok}

\* the deepest node above both the node at p and the node at q, or one of
\* the two when it is above the other
CommonPath(p, q) ==
  LET n == CHOOSE m \in 0..Len(p) :
             /\ m <= Len(q)
             /\ SubSeq(p, 1, m) = SubSeq(q, 1, m)
             /\ \A k \in (m + 1)..Len(p) :
                  k > Len(q) \/ SubSeq(p, 1, k) # SubSeq(q, 1, k)
  IN SubSeq(p, 1, n)

\* C19 as stated: a suspension that reports cancellation is followed by no
\* Setter call of the run.
C19_NoCallAfterCancel ==
  \A s \in Cancelled : \A j \in (s + 1)..Len(log) : log[j].ev # "Set"

\* C19 amended: after a suspension that reports cancellation the suspended
\* node makes no round and no Setter call (a gradient no final patch), and
\* the run makes no Setter call at all unless it comes from a node that runs
\* beside the suspended one under a common Parallel node.
C19_CancelStopsChain ==
  \A s \in Cancelled :
    /\ \A r \in RoundsAt(log[s].node) : rounds[r].done /\ rounds[r].end < s
    /\ \A j \in (s + 1)..Len(log) :
         log[j].ev = "Set" =>
           /\ log[j].node # log[s].node
           /\ Len(NodeAt(action, CommonPath(log[s].node, log[j].node)).Parallel)
                > 0
    /\ ParallelFree(action) => s = Len(log)

\* a gradient cancelled in its first refresh wait: one round, no final patch
C19_Witness ==
  /\ action = GradientAction(TRUE)
  /\ Done
  /\ ended
  /\ Len(log) = 2
  /\ 2 \in Cancelled
  /\ log[2].d = 600
  /\ Len(rounds) = 1
  /\ FinalRounds = {}
  /\ err = NoError

\* the first round of the run of doGradient that made round r, and how many
\* rounds that run made before r
RECURSIVE FirstRound(_)
FirstRound(r) == IF rounds[r].prev = 0 THEN r ELSE FirstRound(rounds[r].prev)
RECURSIVE Rank(_)
Rank(r) == IF rounds[r].prev = 0 THEN 0 ELSE 1 + Rank(rounds[r].prev)

\* the clock moved by exactly the duration asked for in every suspension,
\* none was cancelled, and no other node suspended beside the one at path
ExactClock(path) ==
  /\ \A j \in 1..Len(log) :
       log[j].ev = "Sleep" => log[j].ok /\ log[j].adv = log[j].d
  /\ ParallelFree(action)
       \/ \A j \in 1..Len(log) : log[j].ev = "Sleep" => log[j].node = path

\* a curve with Refresh > 0, offsets that never decrease and a last offset
\* above 0
Sampled(g) ==
  /\ g.Refresh > 0
  /\ \A i \in 1..(Len(g.Cds) - 1) : g.Cds[i].D <= g.Cds[i + 1].D
  /\ g.Cds[Len(g.Cds)].D > 0

\* the elements of the curve around the elapsed time e < last offset: the
\* last one at or before e and the first one after e
Before(g, e) ==
  g.Cds[CHOOSE i \in 1..Len(g.Cds) :
          /\ g.Cds[i].D <= e
          /\ \A k \in (i + 1)..Len(g.Cds) : g.Cds[k].D > e]
After(g, e) ==
  g.Cds[CHOOSE i \in 1..Len(g.Cds) :
          /\ g.Cds[i].D > e
          /\ \A k \in 1..(i - 1) : g.Cds[k].D <= e]

\* v is the value at e on the line from v1 at time t1 to v2 at time t2,
\* to the nearest unit
OnLine(v, v1, t1, v2, t2, e) ==
  LET exact == (t2 - e) * v1 + (e - t1) * v2
      diff == v * (t2 - t1) - exact
  IN 2 * (IF diff >= 0 THEN diff ELSE -diff) <= t2 - t1

\* the patch p is the interpolation at e between the elements first and
\* second; a value absent from one of the two is that of first
Interpolated(p, first, second, e) ==
  /\ IF first.C.Valid /\ second.C.Valid
       THEN /\ p.C.Valid
            /\ OnLine(p.C.x, first.C.x, first.D, second.C.x, second.D, e)
            /\ OnLine(p.C.y, first.C.y, first.D, second.C.y, second.D, e)
       ELSE p.C = first.C
  /\ IF first.Bri.Valid /\ second.Bri.Valid
       THEN /\ p.Bri.Valid
            /\ OnLine(p.Bri.Value, first.Bri.Value, first.D,
                      second.Bri.Value, second.D, e)
       ELSE p.Bri = first.Bri

\* C20: with a clock that moves by exactly Refresh = R in every suspension,
\* the k-th round (k = 0, 1, ...) of a run of a gradient with R > 0,
\* non-decreasing offsets and last offset L > 0 is made at elapsed time k*R;
\* when k*R < L it is a round of the loop and carries the interpolation at
\* k*R between the elements around k*R; when k*R >= L it is the final patch,
\* it carries the last element, it is the first round at or after L and no
\* round of the run follows it.
C20_SamplingSchedule ==
  \A r \in GradientRounds :
    LET g == NodeAt(action, rounds[r].node).G[1]
        e == Rank(r) * g.Refresh
        L == g.Cds[Len(g.Cds)].D
    IN (Sampled(g) /\ ExactClock(rounds[r].node)) =>
         /\ rounds[r].D = rounds[FirstRound(r)].D + e
         /\ IF e < L
              THEN /\ r \notin FinalRounds
                   /\ Interpolated(rounds[r].props, Before(g, e), After(g, e), e)
              ELSE /\ r \in FinalRounds
                   /\ rounds[r].props.C = g.Cds[Len(g.Cds)].C
                   /\ rounds[r].props.Bri = g.Cds[Len(g.Cds)].Bri
                   /\ e - g.Refresh < L
                   /\ \A q \in RoundIds : rounds[q].prev # r
         /\ \A j \in CallsAt(r) :
              log[j].D = rounds[r].D /\ log[j].props = rounds[r].props

\* the curve [(0.2,0.1)@0, (0.3,0.3)@1000] refreshed every 600: rounds with
\* (0.2,0.1) at 0, (0.26,0.22) at 600 and (0.3,0.3) at 1200
C20_Witness ==
  /\ action.G = <<Gradient2>>
  /\ action.Lights = <<>>
  /\ rootLights = <<>>
  /\ Done
  /\ ExactClock(<<>>)
  /\ Len(rounds) = 3
  /\ rounds[1].props.C = NewMaybeColor(2000, 1000) /\ rounds[1].D = 0
  /\ rounds[2].props.C = NewMaybeColor(2600, 2200) /\ rounds[2].D = 600
  /\ rounds[3].props.C = NewMaybeColor(3000, 3000) /\ rounds[3].D = 1200
  /\ \A r \in RoundIds : rounds[r].done /\ AllCallsOk(r) /\ CallsAt(r) # {}

\* the time from the start of the run of doGradient that made round r to
\* the round
Elapsed(r) == rounds[r].D - rounds[FirstRound(r)].D

MinOf(m, n) == IF m <= n THEN m ELSE n

\* C21: a round of a gradient made at elapsed time e uses the first element
\* of the curve, after the first, whose offset is above e: every element
\* passed over has an offset at or below e, and passing over elements makes
\* no round of its own, a run making one round per suspension, each at a
\* later time than the one before.  When the element passed over last has
\* the offset e, several elements sharing that offset or not, the round
\* carries the C and the Bri of that element unchanged: a jump to the last
\* of the tied elements, no blend over a segment of length zero.
C21_TiesAndSkips ==
  \A r \in GradientRounds :
    LET g == NodeAt(action, rounds[r].node).G[1]
        e == Elapsed(r)
        idx == rounds[r].idx
    IN /\ \A k \in 2..MinOf(idx, Len(g.Cds)) : g.Cds[k].D <= e
       /\ idx < Len(g.Cds) => g.Cds[idx + 1].D > e
       /\ rounds[r].prev # 0 =>
            /\ rounds[r].idx >= rounds[rounds[r].prev].idx
            /\ g.Refresh > 0 => rounds[r].D > rounds[rounds[r].prev].D
       /\ (idx < Len(g.Cds) /\ g.Cds[idx].D = e) =>
            /\ rounds[r].props.C = g.Cds[idx].C
            /\ rounds[r].props.Bri = g.Cds[idx].Bri
            /\ \A j \in CallsAt(r) :
                 log[j].props.C = g.Cds[idx].C
                   /\ log[j].props.Bri = g.Cds[idx].Bri

\* the curve with two elements at offset 2: the round made at elapsed time 2
\* passed over both and carries the second of them, (0.9, 0.9) and 100
C21_Witness ==
  \E r \in GradientRounds :
    /\ NodeAt(action, rounds[r].node).G = <<Gradient4>>
    /\ Elapsed(r) = 2
    /\ rounds[r].prev # 0
    /\ rounds[rounds[r].prev].idx = 1
    /\ rounds[r].idx = 3
    /\ rounds[r].props.C = NewMaybeColor(9000, 9000)
    /\ rounds[r].props.Bri = Just(100)
    /\ rounds[r].done
    /\ CallsAt(r) # {}
    /\ AllCallsOk(r)

\* the rounds made inside the loop of doGradient
LoopRounds == GradientRounds \ FinalRounds

\* C22: in a round of the loop of a gradient, made between the elements prev
\* and next of the curve, the C and the Bri are settled each on its own: a
\* value present in both elements is blended between them; a value prev
\* lacks is absent from the patch, next having it or not; a value only next
\* lacks is that of prev, unchanged, wherever the round falls between the two.
C22_HoldFirstOperand ==
  \A r \in LoopRounds :
    LET g == NodeAt(action, rounds[r].node).G[1]
        prev == g.Cds[rounds[r].idx]
        next == g.Cds[rounds[r].idx + 1]
        e == Elapsed(r)
        p == rounds[r].props
    IN /\ (prev.C.Valid /\ next.C.Valid) =>
            /\ p.C.Valid
            /\ OnLine(p.C.x, prev.C.x, prev.D, next.C.x, next.D, e)
            /\ OnLine(p.C.y, prev.C.y, prev.D, next.C.y, next.D, e)
       /\ ~prev.C.Valid => p.C = NothingColor
       /\ (prev.C.Valid /\ ~next.C.Valid) => p.C = prev.C
       /\ (prev.Bri.Valid /\ next.Bri.Valid) =>
            /\ p.Bri.Valid
            /\ OnLine(p.Bri.Value, prev.Bri.Value, prev.D,
                      next.Bri.Value, next.D, e)
       /\ ~prev.Bri.Valid => p.Bri = Nothing
       /\ (prev.Bri.Valid /\ ~next.Bri.Valid) => p.Bri = prev.Bri
       /\ \A j \in CallsAt(r) : log[j].props.C = p.C /\ log[j].props.Bri = p.Bri

\* the curve of four elements sampled in the middle of its three segments:
\* no C and a blended Bri, then a blended C and the Bri of prev, then the C
\* of prev and no Bri
C22_Witness ==
  /\ action = GradientOf(Gradient3)
  /\ Done
  /\ \E r1 \in LoopRounds : \E r3 \in LoopRounds : \E r5 \in LoopRounds :
       /\ Elapsed(r1) = 1 /\ Elapsed(r3) = 3 /\ Elapsed(r5) = 5
       /\ rounds[r1].props.C = NothingColor
       /\ rounds[r1].props.Bri = Just(205)
       /\ rounds[r3].props.C = NewMaybeColor(4375, 2110)
       /\ rounds[r3].props.Bri = Just(155)
       /\ rounds[r5].props.C = NewMaybeColor(2000, 1000)
       /\ rounds[r5].props.Bri = Nothing
       /\ AllCallsOk(r1) /\ AllCallsOk(r3) /\ AllCallsOk(r5)
       /\ CallsAt(r5) # {}

\* the tree a holds a gradient node whose curve has no element or a first
\* element with an offset other than 0
RECURSIVE HasMalformedGradient(_)
HasMalformedGradient(a) ==
  \/ /\ IsGradientNode(a)
     /\ (Len(a.G[1].Cds) = 0 \/ a.G[1].Cds[1].D # 0)
  \/ \E i \in 1..Len(Children(a)) : HasMalformedGradient(Children(a)[i])

\* C23: AsTask panics exactly for the trees that hold a gradient node whose
\* curve has no element or whose first element has an offset other than 0,
\* wherever the node is in the tree (alone, last child of a Series, child
\* of a Parallel, under a Repeat); no task comes out of it, so no round, no
\* Setter call and no suspension of any node of the tree is ever made and
\* the clock never moves.
C23_CompileTimePanic ==
  /\ HasMalformedGradient(action) <=> ~Compiles
  /\ HasMalformedGradient(action) =>
       /\ threads[Root] = <<>>
       /\ log = <<>>
       /\ rounds = <<>>
       /\ now = 0
       /\ err = NoError

\* a Parallel whose first child is an immediate node and whose second child
\* is a gradient with a first offset of 500: nothing was called
C23_Witness ==
  /\ Len(action.Parallel) = 2
  /\ action.Parallel[1] = OnAction
  /\ IsGradientNode(action.Parallel[2])
  /\ action.Parallel[2].G[1].Cds[1].D = 500
  /\ ~Compiles
  /\ Done
  /\ log = <<>>
  /\ rounds = <<>>

\* a node that asTask compiles to the doOnOff TaskFunc
IsImmediateNode(a) ==
  /\ Len(a.Parallel) = 0
  /\ Len(a.Series) = 0
  /\ a.G = <<>>
  /\ (a.C.Valid \/ a.Bri.Valid \/ a.On \/ a.Off)

\* C24: every round of an immediate node is the only round of its run of
\* doOnOff and carries On = true when the node has On, else On = false when
\* it has Off, else no On, together with the C, the Bri and the
\* TransitionTime of the node as they are, absent when not set; the node
\* never suspends, makes no more rounds than the Repeat counts above it
\* allow and, alone and unrepeated, exactly one, failed or not.
C24_ImmediatePatch ==
  \A path \in Paths(action, <<>>) :
    LET a == NodeAt(action, path) IN
    IsImmediateNode(a) =>
      /\ \A r \in RoundsAt(path) :
           /\ rounds[r].props.On =
                (IF a.On THEN JustBool(TRUE)
                 ELSE IF a.Off THEN JustBool(FALSE) ELSE NothingBool)
           /\ rounds[r].props.C = a.C
           /\ rounds[r].props.Bri = a.Bri
           /\ rounds[r].props.TransitionTime = a.TransitionTime
           /\ rounds[r].prev = 0
           /\ \A j \in CallsAt(r) : log[j].props = rounds[r].props
      /\ \A j \in EventsAt(path) : log[j].ev = "Set"
      /\ Cardinality(RoundsAt(path)) <= Multiplicity(path)
      /\ (path = <<>> /\ a.Repeat < 2 /\ Done) =>
           Len(rounds) = 1 /\ rounds[1].done

\* a node with On, Off, a color, a brightness and a transition time: one
\* round with On = true and the three values
C24_Witness ==
  /\ action = FullAction
  /\ rootLights = <<>>
  /\ Done
  /\ Len(rounds) = 1
  /\ Len(log) = 1
  /\ log[1].ok
  /\ log[1].props.On = JustBool(TRUE)
  /\ log[1].props.C = NewMaybeColor(4000, 2000)
  /\ log[1].props.Bri = Just(135)
  /\ log[1].props.TransitionTime = Just(4)
  /\ now = 0

\* the rounds of the nodes below the node at path
RoundsUnder(path) ==
  {r \in RoundIds :
     Len(rounds[r].node) > Len(path) /\ IsPrefix(path, rounds[r].node)}

\* C25: once a round of a node below a Parallel node has failed the
\* execution holds an error, whatever the other children do afterwards, so
\* the run ends as a failure; a run that ends without an error has finished
\* every round below every Parallel node of the tree without a failed call.
C25_ParallelSuccess ==
  \A path \in Paths(action, <<>>) :
    Len(NodeAt(action, path).Parallel) > 0 =>
      /\ \A r \in RoundsUnder(path) :
           rounds[r].error # NoError => err # NoError
      /\ (Done /\ err = NoError) =>
           \A r \in RoundsUnder(path) :
             rounds[r].done /\ rounds[r].error = NoError /\ AllCallsOk(r)

\* a Parallel of two immediate nodes: the round of one child failed, the
\* round of the other child was made after it and succeeded, and the run
\* ended with the error
C25_Witness ==
  /\ Len(action.Parallel) = 2
  /\ Done
  /\ ~ended
  /\ Len(rounds) = 2
  /\ rounds[1].node # rounds[2].node
  /\ rounds[1].error # NoError
  /\ rounds[1].end < rounds[2].end
  /\ rounds[2].error = NoError
  /\ CallsAt(2) # {}
  /\ AllCallsOk(2)
  /\ \A j \in CallsAt(2) : j > rounds[1].end
  /\ err = rounds[1].error

\* the offsets of the curve never decrease
NonDecreasing(g) ==
  \A i \in 1..(Len(g.Cds) - 1) : g.Cds[i].D <= g.Cds[i + 1].D

\* C26: every run of doGradient of a node, each iteration of a Repeat
\* included, starts afresh: its first round is made with the elements and
\* the patch of the first round of every other run of the node, On = true
\* with it when the node has On, and at no earlier time than the rounds of
\* the runs before it; rounds of the node made at the same elapsed time of
\* their runs carry the same patch, and with a clock that moves by exactly
\* Refresh the k-th rounds of all runs fall at the same elapsed time.
C26_FreshState ==
  \A r \in GradientRounds : \A q \in GradientRounds :
    LET a == NodeAt(action, rounds[r].node) IN
    (rounds[q].node = rounds[r].node /\ NonDecreasing(a.G[1])) =>
      /\ (rounds[r].prev = 0 /\ rounds[q].prev = 0) =>
           /\ rounds[r].props = rounds[q].props
           /\ rounds[r].idx = rounds[q].idx
           /\ rounds[r].props.On =
                (IF a.On THEN JustBool(TRUE) ELSE NothingBool)
      /\ FirstRound(q) < FirstRound(r) =>
           rounds[q].D <= rounds[FirstRound(r)].D
      /\ (Elapsed(r) = Elapsed(q)
            /\ (rounds[r].prev = 0 <=> rounds[q].prev = 0)) =>
           /\ rounds[r].props = rounds[q].props
           /\ rounds[r].idx = rounds[q].idx
      /\ (ExactClock(rounds[r].node) /\ Rank(r) = Rank(q)) =>
           Elapsed(r) = Elapsed(q)

\* the gradient of TestGradient2 with On, repeated twice, with an exact
\* clock: the rounds of the second run, made at 1200, 1800 and 2400, carry
\* the patches of the rounds made at 0, 600 and 1200, On = true included
C26_Witness ==
  /\ action = WithRepeat(GradientAction(TRUE), 2)
  /\ Done
  /\ ExactClock(<<>>)
  /\ Len(rounds) = 6
  /\ rounds[4].prev = 0
  /\ rounds[4].D = 1200 /\ rounds[5].D = 1800 /\ rounds[6].D = 2400
  /\ \A k \in 1..3 : rounds[k + 3].props = rounds[k].props
  /\ rounds[4].props.On = JustBool(TRUE)
  /\ rounds[5].props.C = NewMaybeColor(2600, 2200)
  /\ \A r \in RoundIds : rounds[r].done /\ AllCallsOk(r) /\ CallsAt(r) # {}

\* the time at which the event after log[j] was logged, or the time now
TimeAfter(j) == IF j < Len(log) THEN log[j + 1].D ELSE now

\* the clock moves in suspensions only: it is at 0 until the first event,
\* stands still over every Setter call and moves over a suspension by what
\* the suspension took; suspensions come from Sleep nodes and gradients
ClockMovesInSuspensionsOnly ==
  /\ Len(log) = 0 => now = 0
  /\ Len(log) > 0 => log[1].D = 0
  /\ \A j \in 1..Len(log) :
       IF log[j].ev = "Sleep"
         THEN /\ TimeAfter(j) = log[j].D + log[j].adv
              /\ \/ IsSleepNode(NodeAt(action, log[j].node))
                 \/ IsGradientNode(NodeAt(action, log[j].node))
         ELSE /\ TimeAfter(j) = log[j].D
              /\ ~IsSleepNode(NodeAt(action, log[j].node))

\* C27 as stated: the clock moves in suspensions of Sleep nodes and
\* gradients only, an immediate node never suspends, and all Setter calls of
\* one round are made at the time of the round.
C27_RoundAtOneTime ==
  /\ ClockMovesInSuspensionsOnly
  /\ \A r \in RoundIds : \A j \in CallsAt(r) : log[j].D = rounds[r].D

\* C27 amended: the clock moves in suspensions of Sleep nodes and gradients
\* only and an immediate node never suspends; in a tree without Parallel
\* nodes all Setter calls of one round are made at the time of the round;
\* under a Parallel node two calls of one round are made at one time unless
\* a suspension lies between them, and such a suspension is that of another
\* node, running beside the node of the round under a common Parallel node.
C27_SuspensionPoints ==
  /\ ClockMovesInSuspensionsOnly
  /\ \A j \in 1..Len(log) :
       IsImmediateNode(NodeAt(action, log[j].node)) => log[j].ev = "Set"
  /\ \A r \in RoundIds : \A q \in CallsAt(r) :
       /\ log[q].D >= rounds[r].D
       /\ ParallelFree(action) => log[q].D = rounds[r].D
       /\ \A p \in CallsAt(r) :
            p < q =>
              /\ SleepsBetween(p, q) = {} => log[q].D = log[p].D
              /\ \A s \in SleepsBetween(p, q) :
                   /\ log[s].node # rounds[r].node
                   /\ Len(NodeAt(action,
                         CommonPath(log[s].node, rounds[r].node)).Parallel) > 0

\* a Parallel of a Sleep node and an immediate node over two lights: the
\* Sleep node suspended between the two calls of the round, the second call
\* was made SleepD later than the first
C27_Witness ==
  /\ Len(action.Parallel) = 2
  /\ Done
  /\ ~ended
  /\ Len(rounds) = 1
  /\ Len(log) = 3
  /\ log[1].ev = "Set" /\ log[1].ok /\ log[1].D = 0
  /\ log[2].ev = "Sleep" /\ log[2].ok /\ log[2].adv = SleepD
  /\ log[3].ev = "Set" /\ log[3].ok /\ log[3].D = SleepD
  /\ log[1].round = 1 /\ log[3].round = 1
  /\ now = SleepD

Abs(v) == IF v >= 0 THEN v ELSE -v

\* C28: c.Blend(other, 0) is c and c.Blend(other, 1) is other; for a ratio
\* n / d in [0, 1] each coordinate of c.Blend(other, n / d) is the value of
\* c * (1 - n / d) + other * (n / d) to the nearest 1 / 10000; (0.3, 0.2)
\* blended with (0.2, 0.6) at 0.7 is (0.23, 0.48).
C28_BlendEndpoints ==
  (call.op = "Blend" /\ call.done) =>
    /\ call.n = 0 => call.out = call.c
    /\ call.n = call.d => call.out = call.other
    /\ OnLine(call.out.x, call.c.x, 0, call.other.x, call.d, call.n)
    /\ OnLine(call.out.y, call.c.y, 0, call.other.y, call.d, call.n)
    /\ (/\ call.c = Color(3000, 2000)
        /\ call.other = Color(2000, 6000)
        /\ 10 * call.n = 7 * call.d) => call.out = Color(2300, 4800)

\* TestColorBlend: (0.3, 0.2) blended with (0.2, 0.6) at 0.7
C28_Witness ==
  /\ call.op = "Blend"
  /\ call.done
  /\ call.c = Color(3000, 2000)
  /\ call.other = Color(2000, 6000)
  /\ 10 * call.n = 7 * call.d
  /\ call.out = Color(2300, 4800)

\* C29: NewColor(c.X(), c.Y()) is c for every Color c, whatever its
\* coordinates; for x and y in [0, 1] the X() and the Y() of NewColor(x, y)
\* are within 1 / 10000 of x and of y.
C29_RoundTrip ==
  /\ (call.op = "RoundTrip" /\ call.done) => call.out = call.c
  /\ (call.op = "NewColor" /\ call.done) =>
       /\ Abs(call.backX - call.x) <= Fine
       /\ Abs(call.backY - call.y) <= Fine

\* TestColorXY: a color with a coordinate above 1, here the largest uint16,
\* comes back as it is
C29_Witness ==
  /\ call.op = "RoundTrip"
  /\ call.done
  /\ call.c = Color(65535, 2000)
  /\ call.out = Color(65535, 2000)

\* a node without children and without a gradient
IsLeaf(a) == Len(a.Parallel) = 0 /\ Len(a.Series) = 0 /\ a.G = <<>>

\* C30 as stated: a leaf with any of C, Bri, On, Off and TransitionTime set,
\* TransitionTime alone included, never suspends, and after a run in which
\* every call succeeded and nothing was cancelled it has made one round for
\* each time it ran, every round with those fields.
C30_AnySubsetDispatches ==
  \A path \in Paths(action, <<>>) :
    LET a == NodeAt(action, path) IN
    (/\ IsLeaf(a)
     /\ (a.C.Valid \/ a.Bri.Valid \/ a.On \/ a.Off
           \/ a.TransitionTime.Valid)) =>
      /\ \A j \in EventsAt(path) : log[j].ev = "Set"
      /\ \A r \in RoundsAt(path) :
           /\ rounds[r].props.C = a.C
           /\ rounds[r].props.Bri = a.Bri
           /\ rounds[r].props.TransitionTime = a.TransitionTime
           /\ rounds[r].props.On.Valid = (a.On \/ a.Off)
      /\ Succeeded => Cardinality(RoundsAt(path)) = Multiplicity(path)

\* C30 amended: a leaf with any of C, Bri, On and Off set, with or without
\* a TransitionTime, never suspends and makes one round for each time it
\* runs, every round with those fields and the TransitionTime; a leaf with
\* none of the four, with or without a TransitionTime, makes no round and
\* calls the Setter never: it suspends for its Sleep duration, 0 when none
\* is set, once for each time it runs.
C30_PatchFieldsDispatch ==
  \A path \in Paths(action, <<>>) :
    LET a == NodeAt(action, path) IN
    IsLeaf(a) =>
      IF a.C.Valid \/ a.Bri.Valid \/ a.On \/ a.Off
        THEN /\ \A j \in EventsAt(path) : log[j].ev = "Set"
             /\ \A r \in RoundsAt(path) :
                  /\ rounds[r].props.C = a.C
                  /\ rounds[r].props.Bri = a.Bri
                  /\ rounds[r].props.TransitionTime = a.TransitionTime
                  /\ rounds[r].props.On.Valid = (a.On \/ a.Off)
             /\ Succeeded => Cardinality(RoundsAt(path)) = Multiplicity(path)
        ELSE /\ RoundsAt(path) = {}
             /\ \A j \in EventsAt(path) :
                  log[j].ev = "Sleep" /\ log[j].d = a.Sleep
             /\ Succeeded => Cardinality(EventsAt(path)) = Multiplicity(path)

\* a leaf with a TransitionTime and nothing else: the run is over after a
\* suspension of duration 0, without a round
C30_Witness ==
  /\ IsLeaf(action)
  /\ action.TransitionTime = Just(4)
  /\ ~(action.C.Valid \/ action.Bri.Valid \/ action.On \/ action.Off)
  /\ Succeeded
  /\ rounds = <<>>
  /\ Len(log) = 1
  /\ log[1].ev = "Sleep"
  /\ log[1].d = 0

\* C31: the blend of two brightnesses that are both present, at a ratio
\* n / d in [0, 1], is present and is (1 - n / d) * first + (n / d) * second
\* to the nearest integer; at a ratio below 1 it lies between the smaller
\* and the larger of the two, so it stays in 0..255 and never wraps around
\* the 8 bits; at ratio 0 it is first.
C31_BrightnessBlend ==
  (/\ call.op = "BlendBrightness"
   /\ call.done
   /\ call.first.Valid
   /\ call.second.Valid) =>
    /\ call.out.Valid
    /\ OnLine(call.out.Value, call.first.Value, 0, call.second.Value,
              call.d, call.n)
    /\ call.out.Value \in 0..255
    /\ call.n < call.d =>
         /\ call.out.Value >= MinOf(call.first.Value, call.second.Value)
         /\ call.out.Value <= MaxOf(call.first.Value, call.second.Value)
    /\ call.n = 0 => call.out = call.first

\* gohue.Bright blended with gohue.Bright stays gohue.Bright, and 254
\* blended with 255 at 0.5 is 255
C31_Witness ==
  /\ call.op = "BlendBrightness"
  /\ call.done
  /\ call.first = Just(254)
  /\ call.second = Just(255)
  /\ 2 * call.n = call.d
  /\ call.out = Just(255)

\* C32: in every round of the loop of a gradient, made at elapsed time e
\* between the elements first and second of the curve, first.D <= e <
\* second.D: the denominator second.D - first.D of the ratio is above 0 and
\* the ratio is at least 0 and below 1, whether the offsets of the curve are
\* tied, out of order or neither.
C32_RatioInvariant ==
  \A r \in LoopRounds :
    LET g == NodeAt(action, rounds[r].node).G[1]
        first == g.Cds[rounds[r].idx]
        second == g.Cds[rounds[r].idx + 1]
        e == Elapsed(r)
    IN /\ rounds[r].idx >= 1
       /\ first.D <= e
       /\ e < second.D
       /\ second.D - first.D > 0
       /\ e - first.D >= 0
       /\ e - first.D < second.D - first.D

\* the curve with offsets 0, 3, 1, 4 at elapsed time 3: the round is made
\* between the third and the fourth element, at ratio 2/3
C32_Witness ==
  \E r \in LoopRounds :
    /\ NodeAt(action, rounds[r].node).G = <<GradientUnordered>>
    /\ Elapsed(r) = 3
    /\ rounds[r].idx = 3
    /\ rounds[r].props.C = NewMaybeColor(8333, 7667)
    /\ rounds[r].done
    /\ CallsAt(r) # {}

\* the largest offset of the curve g, and m / r rounded up
MaxOffset(g) ==
  CHOOSE m \in {g.Cds[i].D : i \in 1..Len(g.Cds)} :
    \A i \in 1..Len(g.Cds) : g.Cds[i].D <= m
CeilDiv(m, r) == (m + r - 1) \div r

\* C33: a run of a gradient with Refresh >= 1 whose suspensions each took at
\* least Refresh makes at most CeilDiv(M, Refresh) rounds in its loop, M
\* being the largest offset of the curve, and one final round after them; a
\* round of the loop is followed by a round with the same idx or a larger
\* one, the final round by none, and once the final round is over the run of
\* the node is over.
C33_GradientTermination ==
  \A r \in GradientRounds :
    LET g == NodeAt(action, rounds[r].node).G[1]
        bound == CeilDiv(MaxOffset(g), g.Refresh)
    IN (/\ g.Refresh >= 1
        /\ \A j \in EventsAt(rounds[r].node) :
             (log[j].ev = "Sleep" /\ log[j].ok) => log[j].adv >= g.Refresh) =>
         /\ r \in LoopRounds => Rank(r) < bound
         /\ Rank(r) <= bound
         /\ rounds[r].prev # 0 =>
              /\ rounds[rounds[r].prev].idx <= rounds[r].idx
              /\ rounds[r].prev \in LoopRounds
         /\ (r \in FinalRounds /\ rounds[r].done) =>
              \A x \in LiveFrames :
                FrameOf(x).task.path = rounds[r].node => FrameOf(x).round # r

\* the curve of TestGradient2, largest offset 1000, refreshed every 600: two
\* rounds of the loop and the final round, and the run is over
C33_Witness ==
  /\ action.G = <<Gradient2>>
  /\ action.Repeat = 0
  /\ Done
  /\ Len(rounds) = 3
  /\ LoopRounds = {1, 2}
  /\ FinalRounds = {3}
  /\ Rank(3) = CeilDiv(MaxOffset(Gradient2), 600)
  /\ rounds[3].done

\* C34: a failed Setter call, whatever its raw response, an empty one
\* included, and an id 0 met in a non-empty list each leave an error on
\* the execution for the rest of the run: the round they end has a non-nil
\* error, and a run that is over without an error has made only calls that
\* succeeded and has met no 0 in a list.
C34_NoFailureSwallowed ==
  /\ \A j \in Failures :
       /\ err # NoError
       /\ rounds[log[j].round].done
       /\ rounds[log[j].round].error # NoError
  /\ \A r \in RoundIds : MetZero(r) => err # NoError
  /\ (Done /\ err = NoError) =>
       /\ \A j \in 1..Len(log) : log[j].ev = "Set" => log[j].ok
       /\ \A r \in RoundIds :
            /\ rounds[r].done
            /\ rounds[r].error = NoError
            /\ rounds[r].lights # <<>> => CalledIds(r) = rounds[r].lights

\* a call that failed with the general error and no response: the run ended
\* with an error whose message is empty
C34_Witness ==
  /\ Done
  /\ \E j \in Failures :
       /\ log[j].resp = ""
       /\ log[j].err = GeneralError
  /\ err # NoError
  /\ err.type = "errorString"
  /\ ErrorString(err) = ""

-----------------------------------------------------------------------------
(* Repeat and Series of copies *)

\* the log of one run of the gradient node a from the round at currentD on,
\* when no call fails and every suspension takes exactly Refresh
RECURSIVE ExpectedGradient(_, _, _, _, _, _)
ExpectedGradient(a, ids, path, properties, currentD, idx0) ==
  LET idx == skipSatisfied(a, currentD, idx0)
      props == gradientProperties(a, properties, currentD, idx)
      calls == [k \in 1..Len(ids) |->
                  [ev |-> "Set", node |-> path, L |-> ids[k], props |-> props,
                   d |-> 0]]
  IN IF idx >= Len(Cds(a))
       THEN calls
       ELSE calls
              \o <<[ev |-> "Sleep", node |-> path, L |-> 0,
                    props |-> ZeroProperties, d |-> a.G[1].Refresh]>>
              \o ExpectedGradient(a, ids, path, clearOn(props),
                                  currentD + a.G[1].Refresh, idx)

\* the log of one run of the single-iteration body of b, at path
BodyLog(b, lights0, path) ==
  IF IsGradientNode(b)
    THEN LET lights == IF b.Lights # <<>> THEN b.Lights ELSE lights0
             ids == IF lights = <<>> THEN <<0>> ELSE lights
         IN ExpectedGradient(b, ids, path, initialProperties(b), 0, 1)
    ELSE ExpectedBody(b, lights0, path)

\* the log with the first k steps of every path left out
RelativeLog(k) ==
  [j \in 1..Len(log) |->
     [Shown(log[j]) EXCEPT
        !.node = SubSeq(log[j].node, k + 1, Len(log[j].node))]]

\* the suspensions so far took exactly their duration
NoDrift == \A j \in 1..Len(log) : log[j].ev = "Sleep" => log[j].adv = log[j].d

\* the run is the run of n bodies b one after the other, up to its first
\* failing call: the log is a prefix of n copies of the log of b, a failing
\* call is its last event and gives the error of the run, and a run that
\* is over without one has made all n copies and has no error
RunsCopies(b, lights0, n, k) ==
  LET whole == Copies(BodyLog(b, lights0, <<>>), n) IN
  (~ended /\ (IsGradientNode(b) => NoDrift)) =>
    /\ IsPrefix(RelativeLog(k), whole)
    /\ \A j \in Failures :
         /\ j = Len(log)
         /\ err = fixError(log[j].L, log[j].resp, log[j].err)
    /\ Failures = {} => err = NoError
    /\ (Done /\ Failures = {}) => RelativeLog(k) = whole

\* C35: a node with Repeat = RepeatN and a Series of RepeatN copies of its
\* single-iteration body, run against the same lights, make the same run:
\* the same Setter calls and suspensions in the same order, cut at the same
\* failing call with the same error, and complete when no call fails.
C35_RepeatIsSeriesOfCopies ==
  \A in \in RepeatBodies :
    /\ (action = RepeatOf(in[1], RepeatN) /\ rootLights = in[2]) =>
         RunsCopies(in[1], in[2], RepeatN, 0)
    /\ (action = CopiesOf(in[1], RepeatN) /\ rootLights = in[2]) =>
         RunsCopies(in[1], in[2], RepeatN, 1)

\* a repeated Series was cut by a failing call in its second iteration
C35_Witness ==
  /\ action = RepeatOf(TestSeriesAction, RepeatN)
  /\ Done
  /\ ~ended
  /\ \E j \in Failures :
       /\ j = Len(log)
       /\ j > Len(ExpectedBody(TestSeriesAction, <<>>, <<>>))

-----------------------------------------------------------------------------
(* Parallel children *)

\* the nodes that are children of a Parallel node
ParallelChildren ==
  {c \in Paths(action, <<>>) :
     c # <<>> /\ Len(NodeAt(action, Front(c)).Parallel) > 0}

\* what the log shows of the node at path c and of the nodes below it
LogUnder(c) ==
  LET Under(e) == IsPrefix(c, e.node) IN
  [j \in 1..Len(SelectSeq(log, Under)) |-> Shown(SelectSeq(log, Under)[j])]

\* the round r of a gradient was made from the state of its own run of
\* doGradient: the time since the first round of that run, the index of the
\* round before it (1 in the first round) and an On that only the first
\* round has
OwnPatch(r) ==
  LET a == NodeAt(action, rounds[r].node)
      first == rounds[r].prev = 0
      idx0 == IF first THEN 1 ELSE rounds[rounds[r].prev].idx
      props0 == IF first THEN initialProperties(a)
                ELSE clearOn(rounds[rounds[r].prev].props)
      idx == skipSatisfied(a, Elapsed(r), idx0)
  IN /\ rounds[r].idx = idx
     /\ rounds[r].props = gradientProperties(a, props0, Elapsed(r), idx)
     /\ \A j \in CallsAt(r) : log[j].props = rounds[r].props
OwnState(r) ==
  /\ OwnPatch(r)
  /\ rounds[r].lights = Resolved(rounds[r].node)
  /\ rounds[r].done =>
       CalledIds(r) = (IF rounds[r].lights = <<>> THEN <<0>>
                       ELSE rounds[r].lights)

-----------------------------------------------------------------------------
(* A gradient beside a failing sibling *)

\* the rounds that failed, and the length of the log when the first of them
\* recorded its failure
FailedRounds == {r \in RoundIds : rounds[r].done /\ rounds[r].error # NoError}
FirstFailureAt ==
  CHOOSE n \in {rounds[r].end : r \in FailedRounds} :
    \A r \in FailedRounds : n <= rounds[r].end

\* the rounds of the node at path c with a Setter call after log position n,
\* and its suspensions after n
RoundsAfter(c, n) ==
  {r \in RoundsAt(c) : \E j \in CallsAt(r) : j > n}
SleepsAfter(c, n) ==
  {j \in EventsAt(c) : j > n /\ log[j].ev = "Sleep"}

\* C37: once a round of another node has recorded a failure, a gradient
\* child of a Parallel node whose own rounds all succeed makes Setter calls
\* in at most one more round, the round in progress or the next one, with at
\* most one suspension before it; that round is the last round of the child,
\* and the error of the run stays a failure.
C37_GradientStopsAfterSibling ==
  \A c \in ParallelChildren :
    (/\ IsGradientNode(NodeAt(action, c))
     /\ FailedRounds # {}
     /\ \A r \in RoundsAt(c) : rounds[r].error = NoError) =>
      LET after == RoundsAfter(c, FirstFailureAt) IN
      /\ Cardinality(after) <= 1
      /\ Cardinality(SleepsAfter(c, FirstFailureAt)) <= 1
      /\ \A r \in after : \A j \in SleepsAfter(c, FirstFailureAt) :
           \A i \in CallsAt(r) : j < i
      /\ \A r \in after : \A q \in RoundsAt(c) : q <= r
      /\ err # NoError

\* the gradient of TestGradient2 beside an immediate node: the sibling's
\* call failed while the gradient was suspended after its first round; the
\* gradient made the round at 600 and stopped, without its final patch
C37_Witness ==
  /\ action = ParallelOf(<<GradientAction(TRUE), OnAction>>)
  /\ Done
  /\ ~ended
  /\ Cardinality(RoundsAt(<<1>>)) = 2
  /\ \A r \in RoundsAt(<<1>>) : r \notin FinalRounds /\ AllCallsOk(r)
  /\ \E q \in RoundsAt(<<2>>) :
       /\ rounds[q].error # NoError
       /\ \E r \in RoundsAt(<<1>>) :
            /\ \A j \in CallsAt(r) : j > rounds[q].end
            /\ CallsAt(r) # {}
            /\ rounds[r].D > 0

-----------------------------------------------------------------------------
(* The payload of a node *)

\* which of its payloads a node runs, by the order of the claim: a non-empty
\* Parallel, else a non-empty Series, else G, else the patch fields, else
\* Sleep; and how many of the five the node has
Payload(a) ==
  IF Len(a.Parallel) > 0 THEN "Parallel"
  ELSE IF Len(a.Series) > 0 THEN "Series"
  ELSE IF a.G # <<>> THEN "G"
  ELSE IF a.C.Valid \/ a.Bri.Valid \/ a.On \/ a.Off THEN "Patch"
  ELSE "Sleep"
Payloads(a) ==
  {k \in {"Parallel", "Series", "G", "Patch", "Sleep"} :
     \/ k = "Parallel" /\ Len(a.Parallel) > 0
     \/ k = "Series" /\ Len(a.Series) > 0
     \/ k = "G" /\ a.G # <<>>
     \/ k = "Patch" /\ (a.C.Valid \/ a.Bri.Valid \/ a.On \/ a.Off)
     \/ k = "Sleep" /\ a.Sleep # 0}

\* the children of the payload a node runs
PayloadChildren(a) ==
  IF Payload(a) = "Parallel" THEN a.Parallel
  ELSE IF Payload(a) = "Series" THEN a.Series
  ELSE <<>>

\* the node a path leads to through the payloads that run, or none
RECURSIVE Reaches(_, _)
Reaches(a, path) ==
  path = <<>> \/
    /\ path[1] \in 1..Len(PayloadChildren(a))
    /\ Reaches(PayloadChildren(a)[path[1]], Tail(path))
RECURSIVE Reached(_, _)
Reached(a, path) ==
  IF path = <<>> THEN a
  ELSE Reached(PayloadChildren(a)[path[1]], Tail(path))

\* the events and rounds of the node a at path c are those of its payload
RunsPayload(a, c) ==
  /\ Payload(a) \in {"Parallel", "Series"} =>
       EventsAt(c) = {} /\ RoundsAt(c) = {}
  /\ Payload(a) = "G" =>
       /\ \A j \in EventsAt(c) :
            log[j].ev = "Sleep" => log[j].d = a.G[1].Refresh
       /\ \A r \in RoundsAt(c) :
            /\ rounds[r].idx >= 1
            /\ rounds[r].props.TransitionTime = Nothing
            /\ rounds[r].props.On =
                 (IF rounds[r].prev = 0 /\ a.On
                    THEN JustBool(TRUE) ELSE NothingBool)
            /\ OwnPatch(r)
  /\ Payload(a) = "Patch" =>
       /\ \A j \in EventsAt(c) : log[j].ev = "Set"
       /\ \A r \in RoundsAt(c) :
            /\ rounds[r].props = doOnOff(a)
            /\ rounds[r].prev = 0
            /\ \A j \in CallsAt(r) : log[j].props = doOnOff(a)
  /\ Payload(a) = "Sleep" =>
       /\ RoundsAt(c) = {}
       /\ \A j \in EventsAt(c) : log[j].ev = "Sleep" /\ log[j].d = a.Sleep

\* after a run without failure and cancellation the payload of the node a
\* at path c has run as often as the Repeat counts say
HasRunPayload(a, c) ==
  /\ Payload(a) = "G" =>
       Cardinality(RoundsAt(c) \cap FinalRounds) = Multiplicity(c)
  /\ Payload(a) = "Patch" => Cardinality(RoundsAt(c)) = Multiplicity(c)
  /\ Payload(a) = "Sleep" => Cardinality(EventsAt(c)) = Multiplicity(c)

\* C38: a node runs one payload: its Parallel children when it has any, else
\* its Series children, else its gradient, else its patch, else a suspension
\* of its Sleep, 0 when it has none.  Every Setter call, round and suspension
\* of a run belongs to a node reached through the payloads that run and is
\* of the kind of that node's payload; the other payloads of the node leave
\* no trace: no event of children that do not run, no patch and no Sleep
\* beside the children or the gradient (but for On in the first round of a
\* gradient), no suspension beside a patch.
C38_PayloadPrecedence ==
  Compiles =>
    /\ \A j \in 1..Len(log) : Reaches(action, log[j].node)
    /\ \A r \in RoundIds : Reaches(action, rounds[r].node)
    /\ \A c \in {log[j].node : j \in 1..Len(log)}
                \cup {rounds[r].node : r \in RoundIds} \cup {<<>>} :
         RunsPayload(Reached(action, c), c)
    /\ Succeeded =>
         \A c \in Paths(action, <<>>) :
           /\ Reaches(action, c)
           /\ HasRunPayload(Reached(action, c), c)

\* the node with all five payloads, its G without an element, has run: one
\* round with the patch of its Parallel child and nothing else
C38_Witness ==
  /\ Payloads(action) = {"Parallel", "Series", "G", "Patch", "Sleep"}
  /\ action.Parallel # SubSeq(action.Series, 1, Len(action.Parallel))
  /\ Succeeded
  /\ Len(rounds) = 1
  /\ rounds[1].node = <<1>>
  /\ rounds[1].props = doOnOff(action.Parallel[1])
  /\ \A j \in 1..Len(log) : log[j].ev = "Set" /\ log[j].round = 1
  /\ Len(log) >= 1
  /\ now = 0

-----------------------------------------------------------------------------
(* TransitionTime and gradients *)

\* C39: no round of a gradient node and no Setter call of such a round
\* carries a TransitionTime, the node having one or not.
C39_GradientNoTransitionTime ==
  \A r \in GradientRounds :
    /\ rounds[r].props.TransitionTime = Nothing
    /\ \A j \in CallsAt(r) : log[j].props.TransitionTime = Nothing

\* a gradient node with TransitionTime = 4 ran to its end: a round of the
\* loop and the final patch, each with a call, none with a TransitionTime
C39_Witness ==
  /\ IsGradientNode(action)
  /\ action.TransitionTime = Just(4)
  /\ Succeeded
  /\ \E r \in LoopRounds : CallsAt(r) # {}
  /\ \E r \in FinalRounds : CallsAt(r) # {}
  /\ \A j \in 1..Len(log) :
       log[j].ev = "Set" => log[j].props.TransitionTime = Nothing

-----------------------------------------------------------------------------
(* The Action tree during a run *)

\* C40: no step of a run, of whatever node and whether the run succeeds,
\* fails or is cancelled, changes the Action tree (the fields of its nodes,
\* the elements of its curves) or the default lights given to AsTask.
C40_TreeImmutable ==
  [][action' = action /\ rootLights' = rootLights]_vars

\* a gradient with On, repeated, was cancelled in a later iteration, whose
\* first round carried On = true again: the node and the default lights are
\* as the caller built them
C40_Witness ==
  /\ action = RepeatOf(RampAction, RepeatN)
  /\ action.On
  /\ action.G[1] = GradientRamp(1)
  /\ rootLights = <<1>>
  /\ Done
  /\ ended
  /\ \E r \in RoundIds :
       /\ r > 1
       /\ rounds[r].prev = 0
       /\ rounds[r].props.On = JustBool(TRUE)
       /\ rounds[r].lights = <<1>>

====
